---- MODULE Spec2Model ----
(***************************************************************************)
(* RetroSnap-AI: the instant-film camera widget (RetroCamera), the image   *)
(* operations of utils/imageUtils, the captioning service                  *)
(* (services/geminiService) and the photo list of App.                     *)
(*                                                                         *)
(* The specifications share the variables below; each one moves only the   *)
(* variables of its own component and leaves the others at their initial   *)
(* values:                                                                 *)
(*   SpecCamera   power, getUserMedia, shutter and final capture           *)
(*   FairCamera   SpecCamera with the promise and timer steps fair         *)
(*   SpecPreview  power, getUserMedia and the requestAnimationFrame loop   *)
(*   SpecDevice   SpecPreview together with the shutter and final capture  *)
(*   SpecGrade    the two grading paths, live frame and final capture,     *)
(*                for every preset and beauty level                        *)
(*   SpecGrain    the grain loop of applyVintageFilter, pixel by pixel     *)
(*   SpecImageOps applyVintageFilter, getDominantColor,                    *)
(*                createPolaroidCanvas and the download handler            *)
(*   SpecCaption  generatePhotoCaption on its own                          *)
(*   SpecApp      handlePhotoTaken, captions, edit and delete              *)
(*   SpecGallery  the initial load, new photos, dragging, stacking,        *)
(*                deleting, clearing and the preview modal                 *)
(*   SpecStorage  the initial load and the debounced save to IndexedDB     *)
(*   SpecRemoved  timers and late caption results of removed photos        *)
(*   SpecDevelop  developing and the card download                         *)
(*   FairDevelop  SpecDevelop with the developing timer fair               *)
(***************************************************************************)
EXTENDS Integers, Sequences, FiniteSets, TLC

VARIABLES
    \* ---- RetroCamera component state (useState / refs) ----
    isCameraOn,      \* useState(false)
    error,           \* useState<string|null>(null)
    isShooting,      \* useState(false)
    tempPhoto,       \* useState<string|null>(null)
    activeFilter,    \* useState<FilterType>
    beautyLevel,     \* useState<number>
    useAiCaption,    \* useState<boolean>
    srcObject,       \* videoRef.current.srcObject: "null" or "live"
    readyState,      \* videoRef.current.readyState, 0..4 (0 when no element)
    mediaSupported,  \* navigator.mediaDevices.getUserMedia exists
    camReqs,         \* manageCamera invocations waiting on getUserMedia
    streams,         \* the acquired MediaStreams that have a live track
    captures,        \* takePhoto invocations suspended at await / setTimeout
    lastDone,        \* history: how the takePhoto of the last accepted press ended
    lastPress,       \* history: outcome of the last shutter click
    \* ---- live preview loop ----
    rafPending,      \* requestAnimationFrame callbacks not yet run, by handle
    animationFrameRef, \* useRef<number>(0): the last handle requested
    effectDue,       \* deps of the preview effect changed, effect not yet run
    lastFrame,       \* history: what the last renderPreview call did
    frameTick,       \* history: flips at every renderPreview call
    previewCanvas,   \* the bitmap of the <canvas> behind previewCanvasRef
    \* ---- image operations (utils/imageUtils, PhotoPreviewModal) ----
    ops,             \* image operations whose promise has been created
    isGenerating,    \* PhotoPreviewModal useState(false)
    \* ---- captioning service ----
    calls,           \* generatePhotoCaption invocations
    apiKeyEnv,       \* process.env.API_KEY is non-empty
    \* ---- App ----
    photos,          \* useState<Photo[]>([])
    lastError,       \* useState<string|null>(null)
    dominantColor,   \* useState<string>('#ef4444')
    intakes,         \* handlePhotoTaken invocations at await getDominantColor
    flyTimers,       \* ids of photos whose 100 ms timer is pending
    devTimers,       \* ids of photos whose 6000 ms timer is pending
    nextId,          \* stands for Date.now(): the next fresh photo id
    maxZIndex,       \* useRef(10): the z-index counter
    selectedPhoto,   \* useState<Photo|null>(null): the photo in the modal
    dragState,       \* useState: the id of the photo being dragged, 0 if none
    isStorageLoaded, \* useState(false)
    loadPending,     \* loadPhotos is at `await get('milu_photos')`
    stored,          \* the value under 'milu_photos' in IndexedDB
    saveTimer,       \* the 1000 ms timer of the save effect and its photos
    presses,         \* history: mouse-down events on frames so far
    photosSet,       \* history: setPhotos has been called since the mount
    \* ---- the grain loop of applyVintageFilter ----
    grainFilter,     \* filterType of the grading whose grain loop this is
    imageData,       \* imageData.data, one [r, g, b, a] record per pixel
    grainAt,         \* the pixel the loop is at (i / 4 + 1)
    original,        \* history: imageData.data as getImageData returned it
    noises,          \* history: the value of `noise` at each pixel
    randomCalls      \* history: calls of Math.random() so far

camVars == <<isCameraOn, error, isShooting, tempPhoto, activeFilter, beautyLevel,
             useAiCaption, srcObject, readyState, mediaSupported, camReqs, streams>>
capVars == <<captures, lastDone, lastPress>>
prevVars == <<rafPending, animationFrameRef, effectDue, lastFrame, frameTick,
              previewCanvas>>
opVars == <<ops, isGenerating>>
svcVars == <<calls, apiKeyEnv>>
galVars == <<maxZIndex, selectedPhoto, dragState, isStorageLoaded, loadPending,
             stored, saveTimer, presses, photosSet>>
appVars == <<photos, lastError, dominantColor, intakes, flyTimers, devTimers, nextId,
             galVars>>
grainVars == <<grainFilter, imageData, grainAt, original, noises, randomCalls>>
vars == <<camVars, capVars, prevVars, opVars, svcVars, appVars, grainVars>>

-----------------------------------------------------------------------------
(* Bounds of the model *)

\* getUserMedia requests that may be outstanding at once
MaxPending == 2
\* takePhoto invocations the model lets be suspended at once
MaxInFlight == 2
\* requestAnimationFrame handles the model has room for
MaxFrames == 2
\* image operations started in one run of the image-operation model
MaxOps == 1
\* generatePhotoCaption invocations that may be outstanding at once
MaxCalls == 2
\* photos taken in one run of the App models
MaxPhotos == 1
\* length of the texts a captioning provider answers with
MaxText == 1
\* pixels of the image the grain loop runs over
MaxPixels == 2
\* photos the gallery models hold in all, stored ones and new shots
MaxGallery == 3
\* mouse-down events on frames in one run of the gallery models
MaxPresses == 1
\* photos taken in one run of the removed-photo model
MaxRemoved == 2
\* photos the developing model holds in all, stored ones and new shots
MaxDevelop == 2

Null == "null"
CameraUnavailable == "Camera Unavailable"

\* enum FilterType
FilterType ==
    {"Original", "Classic", "Noir", "Instant", "Blockbuster", "Moody", "Vivid"}

\* the presets and slider positions the user picks from in the camera models
CameraFilters == {"Original", "Noir", "Moody"}
BeautyLevels == {0, 80}

-----------------------------------------------------------------------------
(* Values: encoded images, canvases and colours.  An image is the bitmap   *)
(* it came from (img) and the passes applied to it since (layers).         *)

\* a sequence without its i-th element (Array.prototype.filter on one item)
RemoveAt(s, i) == SubSeq(s, 1, i - 1) \o SubSeq(s, i + 1, Len(s))

Layer(op, filter, level) == [op |-> op, filter |-> filter, level |-> level]

DataUrl(img, layers) == [tag |-> "dataUrl", img |-> img, layers |-> layers]

NoValue == [tag |-> "none", img |-> "", layers |-> <<>>]

Pending == [state |-> "pending", value |-> NoValue]

Resolved(v) == [state |-> "resolved", value |-> v]

Rejected(v) == [state |-> "rejected", value |-> v]

\* canvas.toDataURL('image/jpeg', 0.95) of the square-cropped, mirrored frame
RawCapture == DataUrl("frame", <<Layer("jpeg", "none", 95)>>)

\* what getContext('2d') returned for the canvases an operation creates
CtxChoices == [main : BOOLEAN, temp : BOOLEAN, base : BOOLEAN]

AllCtx == [main |-> TRUE, temp |-> TRUE, base |-> TRUE]

-----------------------------------------------------------------------------
(* utils/imageUtils.ts: applyVintageFilter *)

NoiseAmountMut(filterType) ==
    IF filterType = "Original" THEN 0 ELSE 25

NoiseAmount(filterType) ==
    IF filterType = "Original" THEN 0
    ELSE IF filterType = "Noir" THEN 45 ELSE 25

BeautifyPassMut(layers, level, tempCtx) ==
    IF tempCtx
    THEN layers \o <<Layer("beautify blur", "none", 300 + 8 * level),
                     Layer("beautify screen", "none", 5 * level)>>
    ELSE layers

\* the beautify pass, with strength = beautyLevel / 100: a copy blurred by
\* 3 + strength * 8 px (level: hundredths of a pixel), screened over the
\* image at alpha 0.5 * strength (level: thousandths)
BeautifyPass(layers, level, tempCtx) ==
    IF level > 0 /\ tempCtx
    THEN layers \o <<Layer("beautify blur", "none", 300 + 8 * level),
                     Layer("beautify screen", "none", 5 * level)>>
    ELSE layers

\* the ctx.filter string each case of the switch draws the base canvas
\* through
BaseAdjust(filterType) ==
    CASE filterType = "Classic" ->
             "sepia(0.4) saturate(1.4) contrast(1.1) brightness(1.05)"
      [] filterType = "Noir" -> "grayscale(1) contrast(1.8) brightness(0.9)"
      [] filterType = "Instant" ->
             "contrast(1.1) brightness(1.2) saturate(0.85) sepia(0.2)"
      [] filterType = "Blockbuster" -> "contrast(1.2) saturate(1.1)"
      [] filterType = "Moody" -> "saturate(0.7) contrast(1.4) brightness(0.85)"
      [] filterType = "Vivid" -> "saturate(2.2) contrast(1.2) brightness(1.05)"
      [] OTHER -> "none"

\* the fillRect calls of each case, in the order they are made: blend mode
\* (globalCompositeOperation), fill colour, opacity in percent
TintLayers(filterType) ==
    CASE filterType = "Classic" -> <<Layer("overlay", "rgb(255, 190, 100)", 30)>>
      [] filterType = "Noir" -> <<Layer("multiply", "radial vignette", 70)>>
      [] filterType = "Instant" ->
             <<Layer("screen", "rgb(30, 40, 100)", 25),
               Layer("overlay", "rgb(255, 240, 200)", 15)>>
      [] filterType = "Blockbuster" ->
             <<Layer("overlay", "rgb(255, 160, 0)", 40),
               Layer("color-burn", "rgb(0, 220, 255)", 40)>>
      [] filterType = "Moody" -> <<Layer("overlay", "rgb(20, 60, 50)", 60)>>
      [] filterType = "Vivid" -> <<Layer("soft-light", "rgb(80, 0, 100)", 10)>>
      [] OTHER -> <<>>

\* the filter switch: the base canvas drawn back through ctx.filter, then
\* the tint fills; ORIGINAL (and default) only copies the base canvas back
FilterPass(layers, filterType) ==
    IF filterType = "Original"
    THEN layers
    ELSE Append(layers, Layer("base", BaseAdjust(filterType), 0))
             \o TintLayers(filterType)

GrainPass(layers, filterType) ==
    IF NoiseAmount(filterType) > 0
    THEN Append(layers, Layer("grain", "none", NoiseAmount(filterType)))
    ELSE layers

GradedImageMut(imageSrc, filterType, level, ctx) ==
    LET smoothed == BeautifyPass(imageSrc.layers, level, ctx.temp)
        img == IF ctx.base THEN imageSrc.img ELSE "blank"
        base == IF ctx.base THEN smoothed ELSE <<>>
        graded == FilterPass(GrainPass(base, filterType), filterType)
    IN  DataUrl(img, Append(graded, Layer("jpeg", "none", 92)))

\* img.onload of applyVintageFilter with a 2D context: the graded JPEG.
\* bCtx?.drawImage is skipped when the base canvas has no context, and
\* the cleared canvas is then redrawn from a blank base canvas.
GradedImage(imageSrc, filterType, level, ctx) ==
    LET smoothed == BeautifyPass(imageSrc.layers, level, ctx.temp)
        img == IF ctx.base THEN imageSrc.img ELSE "blank"
        base == IF ctx.base THEN smoothed ELSE <<>>
        graded == GrainPass(FilterPass(base, filterType), filterType)
    IN  DataUrl(img, Append(graded, Layer("jpeg", "none", 92)))

\* the artifact takePhoto delivers with the default settings
GradedCapture == GradedImage(RawCapture, "Moody", 80, AllCtx)

ApplyVintageFilterOnloadMut(imageSrc, filterType, level, ctx) ==
    Resolved(GradedImage(imageSrc, filterType, level, AllCtx))

ApplyVintageFilterOnload(imageSrc, filterType, level, ctx) ==
    IF ~ctx.main
    THEN Resolved(imageSrc)
    ELSE Resolved(GradedImage(imageSrc, filterType, level, ctx))

ApplyVintageFilterOnerrorMut(imageSrc) ==
    Rejected(imageSrc)

ApplyVintageFilterOnerror(imageSrc) ==
    Resolved(imageSrc)

-----------------------------------------------------------------------------
(* utils/imageUtils.ts: the grain loop of applyVintageFilter *)

\* the values Math.random() is tried with, in thousandths: the least, the
\* middle and close to the supremum of [0, 1)
RandomSamples == {0, 500, 999}

\* the pixels the loop is tried on: channels at both ends of the range and
\* odd ones, alpha opaque, transparent and in between
PixelSamples ==
    {[r |-> 0, g |-> 5, b |-> 128, a |-> 255],
     [r |-> 250, g |-> 255, b |-> 101, a |-> 0],
     [r |-> 100, g |-> 101, b |-> 100, a |-> 128]}

NoiseMut(random, noiseAmount) == random * noiseAmount

\* (Math.random() - 0.5) * noiseAmount, in thousandths
Noise(random, noiseAmount) == (random - 500) * noiseAmount

\* Math.max(0, Math.min(255, x)), in thousandths
Clamp(x) == IF x < 0 THEN 0 ELSE IF x > 255000 THEN 255000 ELSE x

\* the store into a Uint8ClampedArray: round to the nearest integer, a
\* tie to the even one
ToUint8Clamp(x) ==
    LET c == Clamp(x)
        q == c \div 1000
        rem == c % 1000
    IN  IF rem < 500 THEN q
        ELSE IF rem > 500 THEN q + 1
        ELSE IF q % 2 = 0 THEN q ELSE q + 1

\* one channel of one pixel: data[i] = Math.max(0, Math.min(255, data[i] + noise))
Grained(value, noise) == ToUint8Clamp(Clamp(value * 1000 + noise))

\* one iteration of the loop: a single draw of noise, added to data[i],
\* data[i+1] and data[i+2]; data[i+3] is not touched
GrainLoopStep(random) ==
    /\ NoiseAmount(grainFilter) > 0
    /\ grainAt \in 1..Len(imageData)
    /\ LET noise == Noise(random, NoiseAmount(grainFilter))
           px == imageData[grainAt]
       IN  /\ imageData' = [imageData EXCEPT ![grainAt] =
                   [px EXCEPT !.r = Grained(px.r, noise),
                              !.g = Grained(px.g, noise),
                              !.b = Grained(px.b, noise)]]
           /\ noises' = Append(noises, noise)
    /\ randomCalls' = randomCalls + 1
    /\ grainAt' = grainAt + 1
    /\ UNCHANGED <<grainFilter, original>>

-----------------------------------------------------------------------------
(* utils/imageUtils.ts: getDominantColor and createPolaroidCanvas *)

\* '#ef4444', the initial accent colour
DefaultRed == [tag |-> "color", img |-> "#ef4444", layers |-> <<>>]

\* '#f59e0b', the default amber
DefaultAmber == [tag |-> "color", img |-> "#f59e0b", layers |-> <<>>]

\* `rgb(r,g,b)` of the image scaled to one pixel
SampledColor(imageSrc) ==
    [tag |-> "color", img |-> imageSrc.img, layers |-> imageSrc.layers]

GetDominantColorOnload(imageSrc, ctx) ==
    IF ~ctx.main
    THEN Resolved(DefaultAmber)
    ELSE Resolved(SampledColor(imageSrc))

GetDominantColorOnerror(imageSrc) ==
    Resolved(DefaultAmber)

\* document.createElement('canvas') with nothing drawn on it
BlankCanvas == [tag |-> "canvas", img |-> "blank", layers |-> <<>>]

\* the 600x750 card: white frame, the photo, the caption if there is one
CardCanvas(dataUrl, caption) ==
    LET framed == Append(dataUrl.layers, Layer("card", "none", 0))
    IN  [tag |-> "canvas", img |-> dataUrl.img,
         layers |-> IF caption # ""
                    THEN Append(framed, Layer("caption", caption, 0))
                    ELSE framed]

CreatePolaroidCanvasOnload(dataUrl, caption, ctx) ==
    IF ~ctx.main
    THEN Resolved(BlankCanvas)
    ELSE Resolved(CardCanvas(dataUrl, caption))

\* createPolaroidCanvas sets no img.onerror: the promise is left as it is
CreatePolaroidCanvasOnerror(promise) ==
    promise

-----------------------------------------------------------------------------
(* services/geminiService.ts: generatePhotoCaption *)

\* a caption is a sequence of characters; " " is white space
DefaultCaption == <<"Beautiful Moment">>

\* String.prototype.trim
RECURSIVE TrimLeft(_)
TrimLeft(t) ==
    IF t # <<>> /\ Head(t) = " " THEN TrimLeft(Tail(t)) ELSE t

RECURSIVE TrimRight(_)
TrimRight(t) ==
    IF t # <<>> /\ t[Len(t)] = " " THEN TrimRight(SubSeq(t, 1, Len(t) - 1)) ELSE t

Trim(t) == TrimRight(TrimLeft(t))

\* what a provider can answer with: the texts of at most MaxText characters
Texts == UNION {[1..n -> {" ", "a"}] : n \in 0..MaxText}

\* a provider's answer: no text field, a text, or a field that is no string
Answers ==
    {[kind |-> "missing", text |-> <<>>], [kind |-> "notString", text |-> <<>>]}
        \cup {[kind |-> "text", text |-> t] : t \in Texts}

\* the AiConfig values: absent, or the record RetroCamera builds
NoConfig ==
    [present |-> FALSE, enabled |-> FALSE, provider |-> "gemini",
     openaiConfig |-> FALSE, apiKey |-> ""]

AiConfigs ==
    {NoConfig} \cup
    [present : {TRUE}, enabled : BOOLEAN, provider : {"openai", "gemini"},
     openaiConfig : BOOLEAN, apiKey : {"", "sk"}]

\* the configs RetroCamera's timer callback builds: openaiConfig always there
CameraConfigs == {c \in AiConfigs : c.present /\ c.openaiConfig}

\* `x?.trim() || defaultCaption`; trim of a non-string throws a TypeError
CaptionOrDefaultMut(answer) ==
    IF answer.kind = "notString"
    THEN Rejected("TypeError")
    ELSE IF answer.kind = "missing"
    THEN Resolved(DefaultCaption)
    ELSE Resolved(Trim(answer.text))

CaptionOrDefault(answer) ==
    IF answer.kind = "notString"
    THEN Rejected("TypeError")
    ELSE IF answer.kind = "missing" \/ Trim(answer.text) = <<>>
    THEN Resolved(DefaultCaption)
    ELSE Resolved(Trim(answer.text))

Call(photoId, config, pc, contacted, promise) ==
    [photoId |-> photoId, config |-> config, pc |-> pc, contacted |-> contacted,
     promise |-> promise]

\* generatePhotoCaption up to its first await
GeneratePhotoCaptionStart(photoId, config, envKey) ==
    IF ~config.present \/ ~config.enabled
    THEN Call(photoId, config, "settled", "none", Resolved(DefaultCaption))
    ELSE IF config.provider = "openai" /\ config.openaiConfig
    THEN IF config.apiKey = ""
         THEN Call(photoId, config, "settled", "none",
                   Rejected("OpenAI API Key is missing"))
         ELSE Call(photoId, config, "fetch", "openai", Pending)
    ELSE IF ~envKey
    THEN Call(photoId, config, "settled", "none", Resolved(DefaultCaption))
    ELSE Call(photoId, config, "generateContent", "gemini", Pending)

\* the outcomes of fetch(url, ...): a network failure, a non-ok status, an
\* ok response
FetchOutcomes == {"Failed to fetch", "Status 500", "ok"}

\* the OpenAI branch after its awaits (fetch, response.json); only an ok
\* response carries an answer
OpenaiSettles(k, outcome, answer) ==
    /\ k \in 1..Len(calls)
    /\ calls[k].pc = "fetch"
    /\ outcome # "ok" => answer.kind = "missing"
    /\ calls' = [calls EXCEPT ![k].pc = "settled",
                              ![k].promise = IF outcome = "ok"
                                             THEN CaptionOrDefault(answer)
                                             ELSE Rejected(outcome)]

\* the Gemini branch after ai.models.generateContent: the catch block
\* rethrows `Gemini Error: ...`
GeminiSettles(k, ok, answer) ==
    /\ k \in 1..Len(calls)
    /\ calls[k].pc = "generateContent"
    /\ ~ok => answer.kind = "missing"
    /\ calls' = [calls EXCEPT ![k].pc = "settled",
                              ![k].promise =
                                  IF ~ok THEN Rejected("Gemini Error")
                                  ELSE IF CaptionOrDefault(answer).state = "rejected"
                                  THEN Rejected("Gemini Error")
                                  ELSE CaptionOrDefault(answer)]

\* a caller other than App: generatePhotoCaption(image, config)
CallGeneratePhotoCaption(config) ==
    /\ Len(calls) < MaxCalls
    /\ calls' = Append(calls, GeneratePhotoCaptionStart(0, config, apiKeyEnv))

\* that caller takes the settled result
CallerConsumes(k) ==
    /\ k \in 1..Len(calls)
    /\ calls[k].photoId = 0
    /\ calls[k].pc = "settled"
    /\ calls' = RemoveAt(calls, k)

-----------------------------------------------------------------------------
(* App: handlePhotoTaken, the caption handlers, edit and delete *)

\* "\u2728 Writing...", the caption of a photo whose AI caption is pending
WritingCaption == <<"Writing...">>

\* a photo as handlePhotoTaken builds it from the camera's: landed stands
\* for x, y and rotation (FALSE at the ejection point, TRUE on the stack)
Photo(id, dataUrl, caption, zIndex) ==
    [id |-> id, dataUrl |-> dataUrl, caption |-> caption, isDeveloping |-> TRUE,
     landed |-> FALSE, zIndex |-> zIndex]

\* useRef(10)
InitialZIndex == 10

\* IndexedDB has nothing under 'milu_photos', or an array of photos
NoStore == [present |-> FALSE, photos |-> <<>>]

Stored(list) == [present |-> TRUE, photos |-> list]

\* selectedPhoto === null
NoPhoto ==
    [id |-> 0, dataUrl |-> NoValue, caption |-> <<>>, isDeveloping |-> FALSE,
     landed |-> FALSE, zIndex |-> 0]

\* the save effect's setTimeout handler with the photos of its render
NoTimer == [set |-> FALSE, photos |-> <<>>]

SaveTimer(list) == [set |-> TRUE, photos |-> list]

\* the position of the photo with the given id in a list, 0 if it is not
\* there (findIndex, with 0 for -1)
FindIndex(list, id) ==
    IF \E i \in 1..Len(list) : list[i].id = id
    THEN CHOOSE i \in 1..Len(list) :
             list[i].id = id /\ \A j \in 1..(i - 1) : list[j].id # id
    ELSE 0

\* the effect that syncs selectedPhoto with the latest version in photos
Synced(sel, list) ==
    IF sel # NoPhoto /\ FindIndex(list, sel.id) # 0
    THEN list[FindIndex(list, sel.id)]
    ELSE sel

\* the effects that follow a render in which setPhotos was called: the
\* save effect clears its timer and, once storage is loaded, sets a new
\* one; the sync effect refreshes selectedPhoto (sel: its value after the
\* handler)
AfterSetPhotos(sel) ==
    /\ photosSet' = TRUE
    /\ saveTimer' = IF isStorageLoaded THEN SaveTimer(photos') ELSE saveTimer
    /\ selectedPhoto' = Synced(sel, photos')

\* what a handler that neither selects, drags, loads nor counts leaves alone
galKept == <<maxZIndex, dragState, isStorageLoaded, loadPending, stored, presses>>

IsAiEnabled(aiConfig) == aiConfig.present /\ aiConfig.enabled

InitialCaption(aiConfig) ==
    IF IsAiEnabled(aiConfig) THEN WritingCaption ELSE DefaultCaption

\* handlePhotoTaken up to `await getDominantColor(newPhoto.dataUrl)`
HandlePhotoTaken(dataUrl, aiConfig) ==
    /\ nextId' = nextId + 1
    /\ lastError' = IF IsAiEnabled(aiConfig) THEN Null ELSE lastError
    /\ maxZIndex' = maxZIndex + 1
    /\ intakes' = Append(intakes,
           [photo |-> Photo(nextId, dataUrl, InitialCaption(aiConfig),
                            maxZIndex + 1),
            aiConfig |-> aiConfig])
    /\ UNCHANGED <<photos, dominantColor, flyTimers, devTimers, calls>>
    /\ UNCHANGED <<selectedPhoto, dragState, isStorageLoaded, loadPending, stored,
                   saveTimer, presses, photosSet>>

PhotoTaken(dataUrl, aiConfig) ==
    /\ nextId <= MaxPhotos
    /\ HandlePhotoTaken(dataUrl, aiConfig)

RequestsCaptionMut(aiConfig) == TRUE

\* whether handlePhotoTaken asks the service for a caption
RequestsCaption(aiConfig) == IsAiEnabled(aiConfig)

\* getDominantColor settles and handlePhotoTaken resumes: setDominantColor,
\* append the photo, start both timers, request the caption if enabled
IntakeResumes(loaded, ctxOk) ==
    /\ intakes # <<>>
    /\ ~loaded => ctxOk
    /\ LET in == Head(intakes)
           color == IF loaded
                    THEN GetDominantColorOnload(in.photo.dataUrl,
                                                [AllCtx EXCEPT !.main = ctxOk])
                    ELSE GetDominantColorOnerror(in.photo.dataUrl)
       IN  /\ color.state = "resolved"
           /\ dominantColor' = color.value
           /\ photos' = Append(photos, in.photo)
           /\ flyTimers' = flyTimers \cup {in.photo.id}
           /\ devTimers' = devTimers \cup {in.photo.id}
           /\ IF RequestsCaption(in.aiConfig)
              THEN calls' = Append(calls,
                       GeneratePhotoCaptionStart(in.photo.id, in.aiConfig, apiKeyEnv))
              ELSE UNCHANGED calls
    /\ intakes' = Tail(intakes)
    /\ AfterSetPhotos(selectedPhoto)
    /\ UNCHANGED <<lastError, nextId, galKept>>

\* the 100 ms timer: the photo flies to the stack
FlyTimer(id) ==
    /\ id \in flyTimers
    /\ flyTimers' = flyTimers \ {id}
    /\ LET Land(p) == IF p.id = id THEN [p EXCEPT !.landed = TRUE] ELSE p
       IN  photos' = [i \in 1..Len(photos) |-> Land(photos[i])]
    /\ AfterSetPhotos(selectedPhoto)
    /\ UNCHANGED <<lastError, dominantColor, intakes, devTimers, nextId, calls,
                   galKept>>

\* the 6000 ms timer: developing ends
DevelopTimer(id) ==
    /\ id \in devTimers
    /\ devTimers' = devTimers \ {id}
    /\ LET Develop(p) == IF p.id = id THEN [p EXCEPT !.isDeveloping = FALSE] ELSE p
       IN  photos' = [i \in 1..Len(photos) |-> Develop(photos[i])]
    /\ AfterSetPhotos(selectedPhoto)
    /\ UNCHANGED <<lastError, dominantColor, intakes, flyTimers, nextId, calls,
                   galKept>>

WithAiCaptionMut(p, id, aiCaption) ==
    IF p.caption = WritingCaption \/ p.caption = <<>>
    THEN [p EXCEPT !.caption = aiCaption]
    ELSE p

\* the .then handler: the caption is written only over the placeholder
WithAiCaption(p, id, aiCaption) ==
    IF p.id = id /\ (p.caption = WritingCaption \/ p.caption = <<>>)
    THEN [p EXCEPT !.caption = aiCaption]
    ELSE p

CaptionThen(k) ==
    /\ k \in 1..Len(calls)
    /\ calls[k].photoId # 0
    /\ calls[k].promise.state = "resolved"
    /\ LET Write(p) == WithAiCaption(p, calls[k].photoId, calls[k].promise.value)
       IN  photos' = [i \in 1..Len(photos) |-> Write(photos[i])]
    /\ calls' = RemoveAt(calls, k)
    /\ AfterSetPhotos(selectedPhoto)
    /\ UNCHANGED <<lastError, dominantColor, intakes, flyTimers, devTimers, nextId,
                   galKept>>

RevertedCaptionMut(p, id) ==
    IF p.id = id
    THEN [p EXCEPT !.caption = DefaultCaption]
    ELSE p

\* the .catch handler's map: back to the default, only from the placeholder
RevertedCaption(p, id) ==
    IF p.id = id /\ p.caption = WritingCaption
    THEN [p EXCEPT !.caption = DefaultCaption]
    ELSE p

\* the text shown after "Smart Caption Failed: "
ErrorMessage(msg) ==
    IF msg = "Failed to fetch" THEN "Network Error: Check URL/CORS" ELSE msg

CaptionCatch(k) ==
    /\ k \in 1..Len(calls)
    /\ calls[k].photoId # 0
    /\ calls[k].promise.state = "rejected"
    /\ lastError' = ErrorMessage(calls[k].promise.value)
    /\ LET Revert(p) == RevertedCaption(p, calls[k].photoId)
       IN  photos' = [i \in 1..Len(photos) |-> Revert(photos[i])]
    /\ calls' = RemoveAt(calls, k)
    /\ AfterSetPhotos(selectedPhoto)
    /\ UNCHANGED <<dominantColor, intakes, flyTimers, devTimers, nextId, galKept>>

\* the captions a user types into a frame
UserCaptions == {<<>>, <<"mine">>}

HandleUpdateCaption(id, newCaption) ==
    /\ \E i \in 1..Len(photos) : photos[i].id = id /\ photos[i].caption # newCaption
    /\ LET Edit(p) == IF p.id = id THEN [p EXCEPT !.caption = newCaption] ELSE p
       IN  photos' = [i \in 1..Len(photos) |-> Edit(photos[i])]
    /\ AfterSetPhotos(selectedPhoto)
    /\ UNCHANGED <<lastError, dominantColor, intakes, flyTimers, devTimers, nextId,
                   calls, galKept>>

\* the X of a frame: the photo is filtered out, and the modal closes if
\* it shows that photo
HandleDeletePhoto(id) ==
    /\ \E i \in 1..Len(photos) : photos[i].id = id
    /\ photos' = SelectSeq(photos, LAMBDA p : p.id # id)
    /\ AfterSetPhotos(IF selectedPhoto.id = id THEN NoPhoto ELSE selectedPhoto)
    /\ UNCHANGED <<lastError, dominantColor, intakes, flyTimers, devTimers, nextId,
                   calls, galKept>>

\* the X of the error banner
DismissError ==
    /\ lastError # Null
    /\ lastError' = Null
    /\ UNCHANGED <<photos, dominantColor, intakes, flyTimers, devTimers, nextId,
                   calls, galVars>>

-----------------------------------------------------------------------------
(* App: storage, dragging, stacking, clearing and the preview modal *)

ProcessedMut(saved) == saved

\* saved.map(p => ({ ...p, isDeveloping: false }))
Processed(saved) ==
    [i \in 1..Len(saved) |-> [saved[i] EXCEPT !.isDeveloping = FALSE]]

\* Math.max(...processed.map(p => p.zIndex || 0)), of a non-empty list
MaxZ(list) ==
    CHOOSE z \in {list[i].zIndex : i \in 1..Len(list)} :
        \A i \in 1..Len(list) : list[i].zIndex <= z

\* loadPhotos after `await get('milu_photos')` resolved: an array replaces
\* the photo list and resets the z-index counter; finally isStorageLoaded.
\* The colour of the last loaded photo is taken as getDominantColor gives
\* it for an image that loads.
LoadPhotosResolves ==
    /\ loadPending
    /\ loadPending' = FALSE
    /\ isStorageLoaded' = TRUE
    /\ IF stored.present
       THEN /\ photos' = Processed(stored.photos)
            /\ IF Len(stored.photos) > 0
               THEN /\ maxZIndex' = MaxZ(Processed(stored.photos)) + 1
                    /\ dominantColor' = GetDominantColorOnload(
                           stored.photos[Len(stored.photos)].dataUrl, AllCtx).value
               ELSE UNCHANGED <<maxZIndex, dominantColor>>
       ELSE UNCHANGED <<photos, maxZIndex, dominantColor>>
    /\ saveTimer' = SaveTimer(photos')
    /\ selectedPhoto' = Synced(selectedPhoto, photos')
    /\ photosSet' = (photosSet \/ stored.present)
    /\ UNCHANGED presses
    /\ UNCHANGED <<lastError, intakes, flyTimers, devTimers, nextId, calls,
                   dragState, stored>>

\* get rejected: the catch logs, finally isStorageLoaded, and the save
\* effect sets its timer with the photos of that render
LoadPhotosRejects ==
    /\ loadPending
    /\ loadPending' = FALSE
    /\ isStorageLoaded' = TRUE
    /\ saveTimer' = SaveTimer(photos)
    /\ UNCHANGED <<presses, photosSet>>
    /\ UNCHANGED <<photos, lastError, dominantColor, intakes, flyTimers, devTimers,
                   nextId, calls, maxZIndex, selectedPhoto, dragState, stored>>

\* the save effect's timer fires: set('milu_photos', photos); a rejected
\* set is logged
SaveTimerFires(ok) ==
    /\ saveTimer.set
    /\ saveTimer' = NoTimer
    /\ stored' = IF ok THEN Stored(saveTimer.photos) ELSE stored
    /\ UNCHANGED <<presses, photosSet>>
    /\ UNCHANGED <<photos, lastError, dominantColor, intakes, flyTimers, devTimers,
                   nextId, calls, maxZIndex, selectedPhoto, dragState,
                   isStorageLoaded, loadPending>>

\* mouse down on a frame: bring to front, start the drag
HandleMouseDown(id) ==
    /\ FindIndex(photos, id) # 0
    /\ maxZIndex' = maxZIndex + 1
    /\ LET Raise(p) == IF p.id = id THEN [p EXCEPT !.zIndex = maxZIndex + 1] ELSE p
       IN  photos' = [i \in 1..Len(photos) |-> Raise(photos[i])]
    /\ presses' = presses + 1
    /\ dragState' = id
    /\ AfterSetPhotos(selectedPhoto)
    /\ UNCHANGED <<lastError, dominantColor, intakes, flyTimers, devTimers, nextId,
                   calls, isStorageLoaded, loadPending, stored>>

\* mouse move during a drag: the dragged photo, if still there, follows
\* the mouse (onStack: whether that puts it at the stack's position)
HandleMouseMove(onStack) ==
    /\ dragState # 0
    /\ LET Move(p) == IF p.id = dragState THEN [p EXCEPT !.landed = onStack] ELSE p
       IN  photos' = [i \in 1..Len(photos) |-> Move(photos[i])]
    /\ AfterSetPhotos(selectedPhoto)
    /\ UNCHANGED <<lastError, dominantColor, intakes, flyTimers, devTimers, nextId,
                   calls, galKept>>

\* mouse up: a press that moved less than 5 px is a click and opens the
\* modal on the photo, if it is still in the list
HandleMouseUp(click) ==
    /\ dragState # 0
    /\ dragState' = 0
    /\ selectedPhoto' = IF click /\ FindIndex(photos, dragState) # 0
                        THEN photos[FindIndex(photos, dragState)]
                        ELSE selectedPhoto
    /\ UNCHANGED <<presses, photosSet>>
    /\ UNCHANGED <<photos, lastError, dominantColor, intakes, flyTimers, devTimers,
                   nextId, calls, maxZIndex, isStorageLoaded, loadPending, stored,
                   saveTimer>>

\* the Stack button, disabled while there is no photo
OrganizePhotos ==
    /\ Len(photos) > 0
    /\ photos' = [i \in 1..Len(photos) |->
                     [photos[i] EXCEPT !.landed = TRUE, !.zIndex = i]]
    /\ maxZIndex' = Len(photos) + 1
    /\ AfterSetPhotos(selectedPhoto)
    /\ UNCHANGED presses
    /\ UNCHANGED <<lastError, dominantColor, intakes, flyTimers, devTimers, nextId,
                   calls, dragState, isStorageLoaded, loadPending>>
    /\ UNCHANGED stored

\* the Clear All button: the list is emptied and the key deleted; a
\* rejected del is logged
ClearPhotos(ok) ==
    /\ Len(photos) > 0
    /\ photos' = <<>>
    /\ stored' = IF ok THEN NoStore ELSE stored
    /\ AfterSetPhotos(selectedPhoto)
    /\ UNCHANGED presses
    /\ UNCHANGED <<lastError, dominantColor, intakes, flyTimers, devTimers, nextId,
                   calls, maxZIndex, dragState, isStorageLoaded, loadPending>>

\* photos[i] of JavaScript at the position after, or before, a 1-based
\* index: undefined outside the array
Following(list, idx) == IF idx + 1 \in 1..Len(list) THEN list[idx + 1] ELSE NoPhoto

Preceding(list, idx) ==
    IF idx >= 1 /\ idx - 1 \in 1..Len(list) THEN list[idx - 1] ELSE NoPhoto

\* the modal's delete button: photos[idx + 1] ?? photos[idx - 1] ?? null
\* becomes the selection
HandleDeleteFromModal ==
    /\ selectedPhoto # NoPhoto
    /\ LET idx == FindIndex(photos, selectedPhoto.id)
           nextPhoto == IF Following(photos, idx) # NoPhoto
                        THEN Following(photos, idx)
                        ELSE Preceding(photos, idx)
       IN  /\ photos' = SelectSeq(photos, LAMBDA p : p.id # selectedPhoto.id)
           /\ AfterSetPhotos(nextPhoto)
    /\ UNCHANGED <<lastError, dominantColor, intakes, flyTimers, devTimers, nextId,
                   calls, galKept>>

\* getNavigationProps, with currentIndex 1-based and 0 for -1
GetNavigationProps ==
    IF selectedPhoto = NoPhoto
    THEN [hasPrev |-> FALSE, hasNext |-> FALSE, currentIndex |-> 0]
    ELSE LET currentIndex == FindIndex(photos, selectedPhoto.id)
         IN  [hasPrev |-> currentIndex > 1,
              hasNext |-> currentIndex < Len(photos),
              currentIndex |-> currentIndex]

\* ArrowLeft or the Prev button
HandlePrevPhoto ==
    /\ selectedPhoto # NoPhoto
    /\ selectedPhoto' = IF GetNavigationProps.hasPrev
                        THEN photos[GetNavigationProps.currentIndex - 1]
                        ELSE selectedPhoto
    /\ UNCHANGED <<presses, photosSet>>
    /\ UNCHANGED <<photos, lastError, dominantColor, intakes, flyTimers, devTimers,
                   nextId, calls, maxZIndex, dragState, isStorageLoaded,
                   loadPending, stored, saveTimer>>

\* ArrowRight or the Next button
HandleNextPhoto ==
    /\ selectedPhoto # NoPhoto
    /\ selectedPhoto' = IF GetNavigationProps.hasNext
                        THEN photos[GetNavigationProps.currentIndex + 1]
                        ELSE selectedPhoto
    /\ UNCHANGED <<presses, photosSet>>
    /\ UNCHANGED <<photos, lastError, dominantColor, intakes, flyTimers, devTimers,
                   nextId, calls, maxZIndex, dragState, isStorageLoaded,
                   loadPending, stored, saveTimer>>

\* Escape, the backdrop or the modal's X: onClose
CloseModal ==
    /\ selectedPhoto # NoPhoto
    /\ selectedPhoto' = NoPhoto
    /\ UNCHANGED <<presses, photosSet>>
    /\ UNCHANGED <<photos, lastError, dominantColor, intakes, flyTimers, devTimers,
                   nextId, calls, maxZIndex, dragState, isStorageLoaded,
                   loadPending, stored, saveTimer>>

-----------------------------------------------------------------------------
(* The image operations as promises, and the download handler *)

ImageOp(kind, src, filter, level, caption) ==
    [kind |-> kind, src |-> src, filter |-> filter, beauty |-> level,
     caption |-> caption, img |-> "loading", ctx |-> AllCtx,
     promise |-> Pending, handler |-> "none"]

\* the sources the operations are tried on: a fresh capture, a stored photo
Sources == {RawCapture, DataUrl("stored", <<Layer("jpeg", "none", 92)>>)}

Captions == {"", "Beautiful Moment"}

CallApplyVintageFilter(src, f, b) ==
    /\ Len(ops) < MaxOps
    /\ ops' = Append(ops, ImageOp("applyVintageFilter", src, f, b, ""))
    /\ UNCHANGED isGenerating

CallGetDominantColor(src) ==
    /\ Len(ops) < MaxOps
    /\ ops' = Append(ops, ImageOp("getDominantColor", src, "Original", 0, ""))
    /\ UNCHANGED isGenerating

\* handleDownload up to its await; the button is disabled while
\* isGenerating || photo.isDeveloping
HandleDownload(dataUrl, caption, isDeveloping) ==
    /\ Len(ops) < MaxOps
    /\ ~isGenerating
    /\ ~isDeveloping
    /\ isGenerating' = TRUE
    /\ ops' = Append(ops, [ImageOp("createPolaroidCanvas", dataUrl, "Original", 0,
                                   caption) EXCEPT !.handler = "awaiting"])

ImgOnload(i, ctx) ==
    /\ i \in 1..Len(ops)
    /\ ops[i].img = "loading"
    /\ LET o == ops[i]
           settled ==
               IF o.kind = "applyVintageFilter"
               THEN ApplyVintageFilterOnload(o.src, o.filter, o.beauty, ctx)
               ELSE IF o.kind = "getDominantColor"
               THEN GetDominantColorOnload(o.src, ctx)
               ELSE CreatePolaroidCanvasOnload(o.src, o.caption, ctx)
       IN  ops' = [ops EXCEPT ![i].img = "loaded", ![i].ctx = ctx,
                              ![i].promise = settled]
    /\ UNCHANGED isGenerating

ImgOnerror(i) ==
    /\ i \in 1..Len(ops)
    /\ ops[i].img = "loading"
    /\ LET o == ops[i]
           settled ==
               IF o.kind = "applyVintageFilter"
               THEN ApplyVintageFilterOnerror(o.src)
               ELSE IF o.kind = "getDominantColor"
               THEN GetDominantColorOnerror(o.src)
               ELSE CreatePolaroidCanvasOnerror(o.promise)
       IN  ops' = [ops EXCEPT ![i].img = "failed", ![i].promise = settled]
    /\ UNCHANGED isGenerating

\* handleDownload resumes after its await: canvas.toBlob(...) on success,
\* the catch block (setIsGenerating(false)) on rejection
DownloadResumes(i) ==
    /\ i \in 1..Len(ops)
    /\ ops[i].handler = "awaiting"
    /\ ops[i].promise.state # "pending"
    /\ IF ops[i].promise.state = "resolved"
       THEN /\ ops' = [ops EXCEPT ![i].handler = "toBlob"]
            /\ UNCHANGED isGenerating
       ELSE /\ ops' = [ops EXCEPT ![i].handler = "done"]
            /\ isGenerating' = FALSE

\* the toBlob callback: downloadBlob if there is a blob, setIsGenerating(false)
ToBlobCallback(i) ==
    /\ i \in 1..Len(ops)
    /\ ops[i].handler = "toBlob"
    /\ ops' = [ops EXCEPT ![i].handler = "done"]
    /\ isGenerating' = FALSE

-----------------------------------------------------------------------------
(* RetroCamera: power and manageCamera *)

\* the <video> element is rendered only when isCameraOn && !error
VideoMounted == isCameraOn /\ error = Null

ShutterDisabledMut == error # Null \/ ~isCameraOn

\* disabled={isShooting || !!error || !isCameraOn}
ShutterDisabled == isShooting \/ error # Null \/ ~isCameraOn

ErrorAfterSwitchOffMut == Null

\* manageCamera with the camera off returns before its setError(null)
ErrorAfterSwitchOff == error

CamReq(mounted, phase) == [mounted |-> mounted, phase |-> phase]

\* the effect cleanup: mounted = false in the closure of the previous run
Unmount(reqs) == [i \in 1..Len(reqs) |-> CamReq(FALSE, reqs[i].phase)]

\* an acquired MediaStream with a live track: attached is whether it is
\* the stream of the running effect (localStream, videoRef.srcObject)
Stream(attached) == [attached |-> attached]

\* the cleanup's `if (localStream) localStream.getTracks().forEach(stop)`
\* and manageCamera's `if (stream) { stream.getTracks()...; setStream(null) }`
StopAttached(list) == SelectSeq(list, LAMBDA st : ~st.attached)

AfterAcquireMut(list, mounted) == Append(list, Stream(mounted))

\* getUserMedia has resolved with newStream: kept as localStream if the
\* effect is still mounted, stopped at once if not
AfterAcquire(list, mounted) ==
    IF mounted THEN Append(list, Stream(TRUE)) ELSE list

\* togglePower and the [isCameraOn] effect it triggers, up to the first await
TogglePower ==
    /\ isCameraOn' = ~isCameraOn
    /\ IF isCameraOn
       THEN \* switched off: srcObject = null, the video element is removed
            /\ camReqs' = Unmount(camReqs)
            /\ error' = ErrorAfterSwitchOff
       ELSE IF ~mediaSupported
       THEN \* throw "Camera API not supported" -> catch -> setError
            /\ camReqs' = Unmount(camReqs)
            /\ error' = CameraUnavailable
       ELSE /\ Len(camReqs) < MaxPending
            /\ camReqs' = Append(Unmount(camReqs), CamReq(TRUE, "ideal"))
            /\ error' = Null
    /\ streams' = StopAttached(streams)
    /\ srcObject' = Null
    /\ readyState' = 0
    /\ UNCHANGED <<isShooting, tempPhoto, activeFilter, beautyLevel, useAiCaption,
                   mediaSupported>>

\* a getUserMedia promise (ideal or fallback constraints) resolves
GetUserMediaResolves(i) ==
    /\ i \in 1..Len(camReqs)
    /\ camReqs' = RemoveAt(camReqs, i)
    /\ streams' = AfterAcquire(streams, camReqs[i].mounted)
    /\ IF camReqs[i].mounted
       THEN srcObject' = "live"
       ELSE UNCHANGED srcObject
    /\ UNCHANGED <<isCameraOn, error, isShooting, tempPhoto, activeFilter,
                   beautyLevel, useAiCaption, readyState, mediaSupported>>

\* a getUserMedia promise rejects: the ideal request falls back to
\* { video: true }, the fallback request ends in setError if still mounted
GetUserMediaRejects(i) ==
    /\ i \in 1..Len(camReqs)
    /\ IF camReqs[i].phase = "ideal"
       THEN /\ camReqs' = [camReqs EXCEPT ![i].phase = "fallback"]
            /\ UNCHANGED <<error, srcObject, readyState>>
       ELSE /\ camReqs' = RemoveAt(camReqs, i)
            /\ IF camReqs[i].mounted
               THEN /\ error' = CameraUnavailable
                    /\ srcObject' = Null
                    /\ readyState' = 0
               ELSE UNCHANGED <<error, srcObject, readyState>>
    /\ UNCHANGED <<isCameraOn, isShooting, tempPhoto, activeFilter, beautyLevel,
                   useAiCaption, mediaSupported, streams>>

\* the browser advances (or drops) the media element's readyState
VideoProgress(r) ==
    /\ VideoMounted
    /\ srcObject = "live"
    /\ r \in 1..4
    /\ r # readyState
    /\ readyState' = r
    /\ UNCHANGED <<isCameraOn, error, isShooting, tempPhoto, activeFilter,
                   beautyLevel, useAiCaption, srcObject, mediaSupported, camReqs, streams>>

\* the settings panel is rendered only while the camera is on
SetActiveFilter(f) ==
    /\ isCameraOn
    /\ f \in CameraFilters
    /\ f # activeFilter
    /\ activeFilter' = f
    /\ UNCHANGED <<isCameraOn, error, isShooting, tempPhoto, beautyLevel,
                   useAiCaption, srcObject, readyState, mediaSupported, camReqs, streams>>

SetBeautyLevel(b) ==
    /\ isCameraOn
    /\ b \in BeautyLevels
    /\ b # beautyLevel
    /\ beautyLevel' = b
    /\ UNCHANGED <<isCameraOn, error, isShooting, tempPhoto, activeFilter,
                   useAiCaption, srcObject, readyState, mediaSupported, camReqs, streams>>

ToggleAiCaption ==
    /\ isCameraOn
    /\ useAiCaption' = ~useAiCaption
    /\ UNCHANGED <<isCameraOn, error, isShooting, tempPhoto, activeFilter,
                   beautyLevel, srcObject, readyState, mediaSupported, camReqs, streams>>

-----------------------------------------------------------------------------
(* RetroCamera: takePhoto *)

\* the early returns of takePhoto: videoRef.current, isShooting, isCameraOn,
\* readyState (captureCanvasRef is always rendered)
TakePhotoGuard ==
    /\ VideoMounted
    /\ ~isShooting
    /\ isCameraOn
    /\ readyState >= 2

Capture(phase, filter, level, ai, dataUrl) ==
    [phase |-> phase, filter |-> filter, beauty |-> level, ai |-> ai,
     dataUrl |-> dataUrl]

\* ai: the enableAi argument onPhotoTaken was called with (FALSE if it
\* was not called)
Done(filterCalls, deliveries, dataUrl) ==
    [ended |-> TRUE, filterCalls |-> filterCalls, deliveries |-> deliveries,
     dataUrl |-> dataUrl, ai |-> FALSE]

NoDone ==
    [ended |-> FALSE, filterCalls |-> 0, deliveries |-> 0, dataUrl |-> NoValue,
     ai |-> FALSE]

CapturedFilterMut(c) == activeFilter

\* the activeFilter argument of applyVintageFilter was evaluated at the
\* press, before the await
CapturedFilter(c) == c.filter

\* useAiCaption as the timer callback reads it: from the closure of the
\* takePhoto that set the timer
DeliveredAi(c) == c.ai

\* a click on the shutter button (dispatched only while it is enabled) runs
\* takePhoto up to its await; ctxOk is what canvas.getContext('2d') gave
PressShutter(ctxOk) ==
    /\ ~ShutterDisabled
    /\ IF ~TakePhotoGuard
       THEN /\ lastPress' = "rejected"
            /\ UNCHANGED <<camVars, captures, lastDone>>
       ELSE /\ Len(captures) < MaxInFlight
            /\ lastPress' = "accepted"
            /\ isShooting' = TRUE
            /\ IF ctxOk
               THEN /\ captures' = Append(captures,
                          Capture("filtering", activeFilter, beautyLevel,
                                  useAiCaption, NoValue))
                    /\ lastDone' = NoDone
               ELSE \* no context: the function returns with nothing scheduled
                    /\ lastDone' = Done(0, 0, NoValue)
                    /\ UNCHANGED captures
            /\ UNCHANGED <<isCameraOn, error, tempPhoto, activeFilter, beautyLevel,
                           useAiCaption, srcObject, readyState, mediaSupported,
                           camReqs, streams>>

\* the applyVintageFilter promise settles and takePhoto resumes after its
\* await: setTempPhoto, build newPhoto, setTimeout(..., 2050)
FilterSettles(i, loaded, ctx) ==
    /\ i \in 1..Len(captures)
    /\ captures[i].phase = "filtering"
    /\ LET c == captures[i]
           p == IF loaded
                THEN ApplyVintageFilterOnload(RawCapture, CapturedFilter(c),
                                              c.beauty, ctx)
                ELSE ApplyVintageFilterOnerror(RawCapture)
       IN  IF p.state = "resolved"
           THEN /\ tempPhoto' = p.value
                /\ captures' = [captures EXCEPT ![i].phase = "printing",
                                                ![i].dataUrl = p.value]
                /\ UNCHANGED lastDone
           ELSE \* the await throws: nothing after it runs
                /\ captures' = RemoveAt(captures, i)
                /\ lastDone' = Done(1, 0, NoValue)
                /\ UNCHANGED tempPhoto
    /\ UNCHANGED <<isCameraOn, error, isShooting, activeFilter, beautyLevel,
                   useAiCaption, srcObject, readyState, mediaSupported, camReqs, streams,
                   lastPress>>

\* what the 2050 ms timer callback leaves in isShooting
ShootingAfterDelivery == FALSE

\* the 2050 ms timer: onPhotoTaken(newPhoto, ...), setIsShooting(false),
\* setTempPhoto(null)
DeliveryTimer(i) ==
    /\ i \in 1..Len(captures)
    /\ captures[i].phase = "printing"
    /\ lastDone' = [Done(1, 1, captures[i].dataUrl) EXCEPT
                        !.ai = DeliveredAi(captures[i])]
    /\ captures' = RemoveAt(captures, i)
    /\ isShooting' = ShootingAfterDelivery
    /\ tempPhoto' = NoValue
    /\ UNCHANGED <<isCameraOn, error, activeFilter, beautyLevel, useAiCaption,
                   srcObject, readyState, mediaSupported, camReqs, streams, lastPress>>

-----------------------------------------------------------------------------
(* RetroCamera: the live preview loop *)

\* a renderPreview closure: the values of its useCallback dependencies
\* [beautyLevel, activeFilter, isCameraOn, error] when it was created
Frame(cameraOn, err, filter, level) ==
    [live |-> TRUE, cameraOn |-> cameraOn, err |-> err, filter |-> filter,
     beauty |-> level]

NoFrame ==
    [live |-> FALSE, cameraOn |-> FALSE, err |-> Null, filter |-> "Original",
     beauty |-> 0]

FreeHandles(pending) == {h \in 1..MaxFrames : ~pending[h].live}

\* requestAnimationFrame: a handle that names no pending callback
NewHandle(pending) == CHOOSE h \in FreeHandles(pending) :
                          \A g \in FreeHandles(pending) : h <= g

CancelMut(pending, handle) == pending

\* cancelAnimationFrame(handle): a handle that is not pending is ignored
Cancel(pending, handle) ==
    IF handle \in 1..MaxFrames
    THEN [pending EXCEPT ![handle] = NoFrame]
    ELSE pending

PreviewReadyMut(c) ==
    /\ VideoMounted
    /\ c.cameraOn
    /\ c.err = Null

\* if (video && canvas && isCameraOn && !error && video.readyState === 4):
\* the refs are read from the DOM, isCameraOn and error from the closure
PreviewReady(c) ==
    /\ VideoMounted
    /\ c.cameraOn
    /\ c.err = Null
    /\ readyState = 4

\* step 2 of renderPreview, with strength = beautyLevel / 100: the video
\* drawn again blurred by 5 + strength * 12 px (level: hundredths of a
\* pixel), screened at alpha strength * 0.6 (level: thousandths)
LiveBeautifyPass(layers, level) ==
    IF level > 0
    THEN layers \o <<Layer("beautify blur", "none", 500 + 12 * level),
                     Layer("beautify screen", "none", 6 * level)>>
    ELSE layers

\* the ctx.filter string the switch of step 3 sets
LiveBaseAdjust(filterType) ==
    CASE filterType = "Classic" ->
             "sepia(0.4) saturate(1.4) contrast(1.1) brightness(1.05)"
      [] filterType = "Noir" -> "grayscale(1) contrast(1.8) brightness(0.9)"
      [] filterType = "Instant" ->
             "contrast(1.1) brightness(1.1) saturate(0.85) sepia(0.2)"
      [] filterType = "Blockbuster" -> "contrast(1.2) saturate(1.1)"
      [] filterType = "Moody" -> "saturate(0.7) contrast(1.4) brightness(0.85)"
      [] filterType = "Vivid" -> "saturate(2.2) contrast(1.2) brightness(1.05)"
      [] OTHER -> "none"

LiveTintLayersMut(filterType) ==
    CASE filterType = "Classic" -> <<Layer("overlay", "rgb(255, 190, 100)", 30)>>
      [] filterType = "Blockbuster" ->
             <<Layer("color-burn", "rgb(0, 220, 255)", 30),
               Layer("overlay", "rgb(255, 160, 0)", 30)>>
      [] filterType = "Moody" -> <<Layer("overlay", "rgb(20, 60, 50)", 50)>>
      [] filterType = "Instant" -> <<Layer("screen", "rgb(30, 40, 100)", 25)>>
      [] OTHER -> <<>>

\* the fillRect calls of step 3, in the order they are made: blend mode,
\* fill colour, opacity in percent
LiveTintLayers(filterType) ==
    CASE filterType = "Classic" -> <<Layer("overlay", "rgb(255, 190, 100)", 30)>>
      [] filterType = "Blockbuster" ->
             <<Layer("overlay", "rgb(255, 160, 0)", 30),
               Layer("color-burn", "rgb(0, 220, 255)", 30)>>
      [] filterType = "Moody" -> <<Layer("overlay", "rgb(20, 60, 50)", 50)>>
      [] filterType = "Instant" -> <<Layer("screen", "rgb(30, 40, 100)", 25)>>
      [] OTHER -> <<>>

\* step 3 of renderPreview: ctx.filter is set after the video has been
\* drawn, so it acts on the fills that follow ("fill filter"), never on the
\* image; without a fill it changes no pixel
LiveFilterPass(layers, filterType) ==
    IF LiveTintLayers(filterType) = <<>>
    THEN layers
    ELSE Append(layers, Layer("fill filter", LiveBaseAdjust(filterType), 0))
             \o LiveTintLayers(filterType)

\* the preview canvas after a frame was drawn: the mirrored video frame,
\* the beauty pass, the filter step
LiveFrame(filterType, level) ==
    [tag |-> "canvas", img |-> "frame",
     layers |-> LiveFilterPass(LiveBeautifyPass(<<>>, level), filterType)]

SchedulesNextMut(ready) == ready

\* whether renderPreview ends by requesting the next frame
SchedulesNext(ready) == TRUE

\* one requestAnimationFrame callback runs renderPreview; ctxOk is what
\* previewCanvas.getContext('2d') gave
RenderPreview(h, ctxOk) ==
    /\ h \in 1..MaxFrames
    /\ rafPending[h].live
    /\ LET c == rafPending[h]
           ran == [rafPending EXCEPT ![h] = NoFrame]
       IN  /\ lastFrame' = IF ~PreviewReady(c) THEN "skipped"
                          ELSE IF ctxOk THEN "drawn" ELSE "nocontext"
           /\ previewCanvas' = IF PreviewReady(c) /\ ctxOk
                               THEN LiveFrame(c.filter, c.beauty)
                               ELSE previewCanvas
           /\ IF SchedulesNext(PreviewReady(c))
              THEN /\ rafPending' = [ran EXCEPT ![NewHandle(ran)] = c]
                   /\ animationFrameRef' = NewHandle(ran)
              ELSE /\ rafPending' = ran
                   /\ UNCHANGED animationFrameRef
    /\ frameTick' = ~frameTick
    /\ UNCHANGED effectDue

\* the effect on [isCameraOn, renderPreview]: the previous run's cleanup,
\* then request a frame (camera on) or cancel (camera off)
RunPreviewEffect ==
    /\ effectDue
    /\ effectDue' = FALSE
    /\ LET cleaned == Cancel(rafPending, animationFrameRef)
       IN  IF isCameraOn
           THEN /\ FreeHandles(cleaned) # {}
                /\ rafPending' = [cleaned EXCEPT ![NewHandle(cleaned)] =
                        Frame(isCameraOn, error, activeFilter, beautyLevel)]
                /\ animationFrameRef' = NewHandle(cleaned)
           ELSE /\ rafPending' = cleaned
                /\ UNCHANGED animationFrameRef
    /\ UNCHANGED <<lastFrame, frameTick, previewCanvas>>

\* the dependencies of renderPreview's useCallback
PreviewDeps == <<beautyLevel, activeFilter, isCameraOn, error>>

-----------------------------------------------------------------------------
(* Initial states *)

InitCam ==
    /\ isCameraOn = FALSE
    /\ error = Null
    /\ isShooting = FALSE
    /\ tempPhoto = NoValue
    /\ activeFilter \in CameraFilters
    /\ beautyLevel \in BeautyLevels
    /\ useAiCaption \in BOOLEAN
    /\ srcObject = Null
    /\ readyState = 0
    /\ mediaSupported \in BOOLEAN
    /\ camReqs = <<>>
    /\ streams = <<>>

InitCap ==
    /\ captures = <<>>
    /\ lastDone = NoDone
    /\ lastPress = "none"

InitPrev ==
    /\ rafPending = [h \in 1..MaxFrames |-> NoFrame]
    /\ animationFrameRef = 0
    /\ effectDue = FALSE
    /\ lastFrame = "none"
    /\ frameTick = FALSE
    /\ previewCanvas = BlankCanvas

InitOps ==
    /\ ops = <<>>
    /\ isGenerating = FALSE

InitSvc ==
    /\ calls = <<>>
    /\ apiKeyEnv = FALSE

\* no grain loop is running
InitGrainIdle ==
    /\ grainFilter = "Original"
    /\ imageData = <<>>
    /\ grainAt = 1
    /\ original = <<>>
    /\ noises = <<>>
    /\ randomCalls = 0

InitApp ==
    /\ photos = <<>>
    /\ lastError = Null
    /\ dominantColor = DefaultRed
    /\ intakes = <<>>
    /\ flyTimers = {}
    /\ devTimers = {}
    /\ nextId = 1
    /\ maxZIndex = InitialZIndex
    /\ selectedPhoto = NoPhoto
    /\ dragState = 0
    /\ isStorageLoaded = FALSE
    /\ loadPending = TRUE
    /\ stored = NoStore
    /\ saveTimer = NoTimer
    /\ presses = 0
    /\ photosSet = FALSE

\* the camera as it starts with nothing saved in localStorage
InitCamIdle ==
    /\ InitCam
    /\ activeFilter = "Moody"
    /\ beautyLevel = 80
    /\ useAiCaption = FALSE
    /\ mediaSupported = TRUE

Init == InitCam /\ InitCap /\ InitPrev /\ InitOps /\ InitSvc /\ InitApp /\ InitGrainIdle

InitImageOps == InitCamIdle /\ InitCap /\ InitPrev /\ InitOps /\ InitSvc /\ InitApp /\ InitGrainIdle

InitCaption ==
    /\ InitCamIdle /\ InitCap /\ InitPrev /\ InitOps /\ InitApp /\ InitGrainIdle
    /\ calls = <<>>
    /\ apiKeyEnv \in BOOLEAN

-----------------------------------------------------------------------------
(* SpecCamera: power, getUserMedia, settings, shutter and final capture *)

NotCamera == <<prevVars, opVars, svcVars, appVars, grainVars>>

NextCamera ==
    \/ TogglePower /\ UNCHANGED <<capVars, NotCamera>>
    \/ \E i \in 1..MaxPending :
          GetUserMediaResolves(i) /\ UNCHANGED <<capVars, NotCamera>>
    \/ \E i \in 1..MaxPending :
          GetUserMediaRejects(i) /\ UNCHANGED <<capVars, NotCamera>>
    \/ \E r \in 1..4 : VideoProgress(r) /\ UNCHANGED <<capVars, NotCamera>>
    \/ \E f \in CameraFilters : SetActiveFilter(f) /\ UNCHANGED <<capVars, NotCamera>>
    \/ \E b \in BeautyLevels : SetBeautyLevel(b) /\ UNCHANGED <<capVars, NotCamera>>
    \/ ToggleAiCaption /\ UNCHANGED <<capVars, NotCamera>>
    \/ \E ctxOk \in BOOLEAN : PressShutter(ctxOk) /\ UNCHANGED NotCamera
    \/ \E i \in 1..MaxInFlight, loaded \in BOOLEAN, ctx \in CtxChoices :
          FilterSettles(i, loaded, ctx) /\ UNCHANGED NotCamera
    \/ \E i \in 1..MaxInFlight : DeliveryTimer(i) /\ UNCHANGED NotCamera

SpecCamera == Init /\ [][NextCamera]_vars

\* a promise that can settle does settle, a timer that is set does fire
FairCamera ==
    /\ SpecCamera
    /\ WF_vars(\E i \in 1..MaxInFlight, loaded \in BOOLEAN, ctx \in CtxChoices :
                  FilterSettles(i, loaded, ctx) /\ UNCHANGED NotCamera)
    /\ WF_vars(\E i \in 1..MaxInFlight : DeliveryTimer(i) /\ UNCHANGED NotCamera)

-----------------------------------------------------------------------------
(* SpecPreview: power, getUserMedia, settings and the preview loop *)

NotPreview == <<capVars, opVars, svcVars, appVars, grainVars>>

\* a RetroCamera action as the preview loop sees it: React runs the pending
\* effect before it renders the update, and a change of a renderPreview
\* dependency makes the effect due again; the <canvas> is unmounted with
\* the <video>, and a canvas mounted anew is blank
EffectAfterUpdate ==
    /\ ~effectDue
    /\ effectDue' = (PreviewDeps' # PreviewDeps)
    /\ previewCanvas' = IF VideoMounted' THEN previewCanvas ELSE BlankCanvas
    /\ UNCHANGED <<rafPending, animationFrameRef, lastFrame, frameTick, NotPreview>>

NextPreview ==
    \/ TogglePower /\ EffectAfterUpdate
    \/ \E i \in 1..MaxPending : GetUserMediaResolves(i) /\ EffectAfterUpdate
    \/ \E i \in 1..MaxPending : GetUserMediaRejects(i) /\ EffectAfterUpdate
    \/ \E r \in 1..4 : VideoProgress(r) /\ EffectAfterUpdate
    \/ \E f \in CameraFilters : SetActiveFilter(f) /\ EffectAfterUpdate
    \/ \E b \in BeautyLevels : SetBeautyLevel(b) /\ EffectAfterUpdate
    \/ RunPreviewEffect /\ UNCHANGED <<camVars, NotPreview>>
    \/ \E h \in 1..MaxFrames, ctxOk \in BOOLEAN :
          RenderPreview(h, ctxOk) /\ UNCHANGED <<camVars, NotPreview>>

SpecPreview == Init /\ [][NextPreview]_vars

-----------------------------------------------------------------------------
(* SpecDevice: the whole RetroCamera, preview loop and final capture *)

\* the settings as shipped; the browser may or may not offer getUserMedia
InitDevice ==
    /\ InitCam /\ InitCap /\ InitPrev /\ InitOps /\ InitSvc /\ InitApp /\ InitGrainIdle
    /\ activeFilter = "Moody"
    /\ beautyLevel = 80
    /\ useAiCaption = FALSE

NextDevice ==
    \/ TogglePower /\ EffectAfterUpdate
    \/ \E i \in 1..MaxPending : GetUserMediaResolves(i) /\ EffectAfterUpdate
    \/ \E i \in 1..MaxPending : GetUserMediaRejects(i) /\ EffectAfterUpdate
    \/ \E r \in 1..4 : VideoProgress(r) /\ EffectAfterUpdate
    \/ RunPreviewEffect /\ UNCHANGED <<camVars, NotPreview>>
    \/ \E h \in 1..MaxFrames, ctxOk \in BOOLEAN :
          RenderPreview(h, ctxOk) /\ UNCHANGED <<camVars, NotPreview>>
    \/ \E ctxOk \in BOOLEAN : PressShutter(ctxOk) /\ UNCHANGED NotCamera
    \/ \E i \in 1..MaxInFlight, loaded \in BOOLEAN, ctx \in CtxChoices :
          FilterSettles(i, loaded, ctx) /\ UNCHANGED NotCamera
    \/ \E i \in 1..MaxInFlight : DeliveryTimer(i) /\ UNCHANGED NotCamera

SpecDevice == InitDevice /\ [][NextDevice]_vars

-----------------------------------------------------------------------------
(* SpecGrade: renderPreview and applyVintageFilter on the same settings *)

\* the camera is on and streaming with some preset and beauty level, the
\* preview effect has requested the first frame
InitGrade ==
    /\ InitCap /\ InitOps /\ InitSvc /\ InitApp /\ InitGrainIdle
    /\ isCameraOn = TRUE
    /\ error = Null
    /\ isShooting = FALSE
    /\ tempPhoto = NoValue
    /\ activeFilter \in FilterType
    /\ beautyLevel \in BeautyLevels
    /\ useAiCaption = FALSE
    /\ srcObject = "live"
    /\ readyState = 4
    /\ mediaSupported = TRUE
    /\ camReqs = <<>>
    /\ streams = <<Stream(TRUE)>>
    /\ rafPending = [h \in 1..MaxFrames |->
                        IF h = 1
                        THEN Frame(isCameraOn, error, activeFilter, beautyLevel)
                        ELSE NoFrame]
    /\ animationFrameRef = 1
    /\ effectDue = FALSE
    /\ lastFrame = "none"
    /\ frameTick = FALSE
    /\ previewCanvas = BlankCanvas

NotGrade == <<camVars, capVars, svcVars, appVars, grainVars>>

\* the live loop draws frames; takePhoto's call of applyVintageFilter with
\* the settings on screen, and the image events that settle it
NextGrade ==
    \/ \E h \in 1..MaxFrames, ctxOk \in BOOLEAN :
          RenderPreview(h, ctxOk) /\ UNCHANGED <<opVars, NotGrade>>
    \/ CallApplyVintageFilter(RawCapture, activeFilter, beautyLevel)
          /\ UNCHANGED <<prevVars, NotGrade>>
    \/ \E i \in 1..MaxOps, ctx \in CtxChoices :
          ImgOnload(i, ctx) /\ UNCHANGED <<prevVars, NotGrade>>
    \/ \E i \in 1..MaxOps :
          ImgOnerror(i) /\ UNCHANGED <<prevVars, NotGrade>>

SpecGrade == InitGrade /\ [][NextGrade]_vars

-----------------------------------------------------------------------------
(* SpecGrain: the grain loop over a small image *)

\* getImageData has returned the canvas of a grading with some preset
InitGrain ==
    /\ InitCamIdle /\ InitCap /\ InitPrev /\ InitOps /\ InitSvc /\ InitApp
    /\ grainFilter \in CameraFilters
    /\ imageData \in [1..MaxPixels -> PixelSamples]
    /\ grainAt = 1
    /\ original = imageData
    /\ noises = <<>>
    /\ randomCalls = 0

NotGrain == <<camVars, capVars, prevVars, opVars, svcVars, appVars>>

NextGrain ==
    \E random \in RandomSamples : GrainLoopStep(random) /\ UNCHANGED NotGrain

SpecGrain == InitGrain /\ [][NextGrain]_vars

-----------------------------------------------------------------------------
(* SpecImageOps: the three image operations and the download handler *)

NotImageOps == <<camVars, capVars, prevVars, svcVars, appVars, grainVars>>

NextImageOps ==
    \/ \E src \in Sources, f \in FilterType, b \in BeautyLevels :
          CallApplyVintageFilter(src, f, b) /\ UNCHANGED NotImageOps
    \/ \E src \in Sources : CallGetDominantColor(src) /\ UNCHANGED NotImageOps
    \/ \E src \in Sources, c \in Captions, d \in BOOLEAN :
          HandleDownload(src, c, d) /\ UNCHANGED NotImageOps
    \/ \E i \in 1..MaxOps, ctx \in CtxChoices : ImgOnload(i, ctx) /\ UNCHANGED NotImageOps
    \/ \E i \in 1..MaxOps : ImgOnerror(i) /\ UNCHANGED NotImageOps
    \/ \E i \in 1..MaxOps : DownloadResumes(i) /\ UNCHANGED NotImageOps
    \/ \E i \in 1..MaxOps : ToBlobCallback(i) /\ UNCHANGED NotImageOps

SpecImageOps == InitImageOps /\ [][NextImageOps]_vars

-----------------------------------------------------------------------------
(* SpecCaption: generatePhotoCaption on its own, over every AiConfig *)

NotService == <<camVars, capVars, prevVars, opVars, appVars, apiKeyEnv, grainVars>>

NextCaption ==
    \/ \E c \in AiConfigs : CallGeneratePhotoCaption(c) /\ UNCHANGED NotService
    \/ \E k \in 1..MaxCalls, o \in FetchOutcomes, a \in Answers :
          OpenaiSettles(k, o, a) /\ UNCHANGED NotService
    \/ \E k \in 1..MaxCalls, ok \in BOOLEAN, a \in Answers :
          GeminiSettles(k, ok, a) /\ UNCHANGED NotService
    \/ \E k \in 1..MaxCalls : CallerConsumes(k) /\ UNCHANGED NotService

SpecCaption == InitCaption /\ [][NextCaption]_vars

-----------------------------------------------------------------------------
(* SpecApp: the photo list under intake, timers, captions, edit and delete *)

NotApp == <<camVars, capVars, prevVars, opVars, apiKeyEnv, grainVars>>

NextApp ==
    \/ \E c \in CameraConfigs \cup {NoConfig} :
          PhotoTaken(GradedCapture, c) /\ UNCHANGED NotApp
    \/ \E loaded \in BOOLEAN, ctxOk \in BOOLEAN :
          IntakeResumes(loaded, ctxOk) /\ UNCHANGED NotApp
    \/ \E k \in 1..MaxPhotos, o \in FetchOutcomes, a \in Answers :
          OpenaiSettles(k, o, a) /\ UNCHANGED <<appVars, NotApp>>
    \/ \E k \in 1..MaxPhotos, ok \in BOOLEAN, a \in Answers :
          GeminiSettles(k, ok, a) /\ UNCHANGED <<appVars, NotApp>>
    \/ \E k \in 1..MaxPhotos : CaptionThen(k) /\ UNCHANGED NotApp
    \/ \E k \in 1..MaxPhotos : CaptionCatch(k) /\ UNCHANGED NotApp
    \/ \E id \in 1..MaxPhotos : FlyTimer(id) /\ UNCHANGED NotApp
    \/ \E id \in 1..MaxPhotos : DevelopTimer(id) /\ UNCHANGED NotApp
    \/ \E id \in 1..MaxPhotos, t \in UserCaptions :
          HandleUpdateCaption(id, t) /\ UNCHANGED NotApp
    \/ \E id \in 1..MaxPhotos : HandleDeletePhoto(id) /\ UNCHANGED NotApp
    \/ DismissError /\ UNCHANGED NotApp

SpecApp == InitCaption /\ [][NextApp]_vars

-----------------------------------------------------------------------------
(* SpecGallery: the photo list under the initial load, new photos,        *)
(* dragging, stacking, deleting, clearing and the preview modal; captions *)
(* are off, and the timers of a new photo and of the save effect stay     *)
(* pending                                                                *)

\* the list an earlier session of k shots saved: the photos lie on the
\* stack, the last one was saved while it was still developing
StoredList(k) ==
    [i \in 1..k |->
        [Photo(i, GradedCapture, DefaultCaption, InitialZIndex + i)
            EXCEPT !.landed = TRUE, !.isDeveloping = (i = k)]]

\* the app has mounted and loadPhotos waits for IndexedDB, which holds
\* nothing, an empty array or the photos of an earlier session; Date.now()
\* is later than the ids of those photos
InitGallery ==
    /\ InitCamIdle /\ InitCap /\ InitPrev /\ InitOps /\ InitSvc /\ InitGrainIdle
    /\ photos = <<>>
    /\ lastError = Null
    /\ dominantColor = DefaultRed
    /\ intakes = <<>>
    /\ flyTimers = {}
    /\ devTimers = {}
    /\ maxZIndex = InitialZIndex
    /\ selectedPhoto = NoPhoto
    /\ dragState = 0
    /\ isStorageLoaded = FALSE
    /\ loadPending = TRUE
    /\ stored \in {NoStore} \cup {Stored(StoredList(k)) : k \in 0..MaxGallery}
    /\ nextId = Len(stored.photos) + 1
    /\ saveTimer = NoTimer
    /\ presses = 0
    /\ photosSet = FALSE

\* a shot of the gallery models, while there is room for its photo
GalleryShot ==
    /\ nextId <= MaxGallery
    /\ HandlePhotoTaken(GradedCapture, NoConfig)

NextGallery ==
    \/ LoadPhotosResolves /\ UNCHANGED NotApp
    \/ LoadPhotosRejects /\ UNCHANGED NotApp
    \/ GalleryShot /\ UNCHANGED NotApp
    \/ \E loaded \in BOOLEAN :
          IntakeResumes(loaded, TRUE) /\ UNCHANGED NotApp
    \/ \E id \in 1..MaxGallery :
          presses < MaxPresses /\ HandleMouseDown(id) /\ UNCHANGED NotApp
    \/ \E onStack \in BOOLEAN : HandleMouseMove(onStack) /\ UNCHANGED NotApp
    \/ \E click \in BOOLEAN : HandleMouseUp(click) /\ UNCHANGED NotApp
    \/ \E id \in 1..MaxGallery : HandleDeletePhoto(id) /\ UNCHANGED NotApp
    \/ OrganizePhotos /\ UNCHANGED NotApp
    \/ \E ok \in BOOLEAN : ClearPhotos(ok) /\ UNCHANGED NotApp
    \/ HandleDeleteFromModal /\ UNCHANGED NotApp
    \/ HandlePrevPhoto /\ UNCHANGED NotApp
    \/ HandleNextPhoto /\ UNCHANGED NotApp
    \/ CloseModal /\ UNCHANGED NotApp

SpecGallery == InitGallery /\ [][NextGallery]_vars

-----------------------------------------------------------------------------
(* SpecStorage: the photo list and IndexedDB: the initial load, the       *)
(* debounced save, new photos, delete and clear; captions are off and the *)
(* timers of a new photo stay pending                                     *)

NextStorage ==
    \/ LoadPhotosResolves /\ UNCHANGED NotApp
    \/ LoadPhotosRejects /\ UNCHANGED NotApp
    \/ \E ok \in BOOLEAN : SaveTimerFires(ok) /\ UNCHANGED NotApp
    \/ GalleryShot /\ UNCHANGED NotApp
    \/ \E loaded \in BOOLEAN :
          IntakeResumes(loaded, TRUE) /\ UNCHANGED NotApp
    \/ \E id \in 1..MaxGallery : HandleDeletePhoto(id) /\ UNCHANGED NotApp
    \/ \E ok \in BOOLEAN : ClearPhotos(ok) /\ UNCHANGED NotApp

SpecStorage == InitGallery /\ [][NextStorage]_vars

-----------------------------------------------------------------------------
(* SpecRemoved: photos with a Smart Caption request each, their timers,   *)
(* the late caption results, delete and clear                             *)

\* the config RetroCamera passes when Smart Caption is on with an OpenAI key
OpenaiConfig ==
    [present |-> TRUE, enabled |-> TRUE, provider |-> "openai",
     openaiConfig |-> TRUE, apiKey |-> "sk"]

\* the answers of an ok response this model tells apart: no text, a text
LateAnswers == {a \in Answers : a.kind = "missing" \/ a.text = <<"a">>}

InitRemoved == InitCaption /\ apiKeyEnv = FALSE

NextRemoved ==
    \/ /\ nextId <= MaxRemoved
       /\ HandlePhotoTaken(GradedCapture, OpenaiConfig)
       /\ UNCHANGED NotApp
    \/ IntakeResumes(TRUE, TRUE) /\ UNCHANGED NotApp
    \/ \E k \in 1..MaxRemoved, o \in {"ok", "Failed to fetch"}, a \in LateAnswers :
          OpenaiSettles(k, o, a) /\ UNCHANGED <<appVars, NotApp>>
    \/ \E k \in 1..MaxRemoved : CaptionThen(k) /\ UNCHANGED NotApp
    \/ \E k \in 1..MaxRemoved : CaptionCatch(k) /\ UNCHANGED NotApp
    \/ \E id \in 1..MaxRemoved : FlyTimer(id) /\ UNCHANGED NotApp
    \/ \E id \in 1..MaxRemoved : DevelopTimer(id) /\ UNCHANGED NotApp
    \/ \E id \in 1..MaxRemoved : HandleDeletePhoto(id) /\ UNCHANGED NotApp
    \/ \E ok \in BOOLEAN : ClearPhotos(ok) /\ UNCHANGED NotApp

SpecRemoved == InitRemoved /\ [][NextRemoved]_vars

-----------------------------------------------------------------------------
(* SpecDevelop, FairDevelop: developing and the card download: the        *)
(* initial load, new photos, the 6000 ms timer, click, close, delete and  *)
(* the modal's download; captions are off, the fly timer stays pending    *)
(* and a download that has started stays at its await                     *)

\* photo.caption as the string createPolaroidCanvas draws: the empty
\* string, or the text, for which its first piece stands
CaptionText(caption) == IF caption = <<>> THEN "" ELSE caption[1]

\* as InitGallery, with at most MaxDevelop stored photos
InitDevelop ==
    /\ InitCamIdle /\ InitCap /\ InitPrev /\ InitOps /\ InitSvc /\ InitGrainIdle
    /\ photos = <<>>
    /\ lastError = Null
    /\ dominantColor = DefaultRed
    /\ intakes = <<>>
    /\ flyTimers = {}
    /\ devTimers = {}
    /\ maxZIndex = InitialZIndex
    /\ selectedPhoto = NoPhoto
    /\ dragState = 0
    /\ isStorageLoaded = FALSE
    /\ loadPending = TRUE
    /\ stored \in {NoStore} \cup {Stored(StoredList(k)) : k \in 0..MaxDevelop}
    /\ nextId = Len(stored.photos) + 1
    /\ saveTimer = NoTimer
    /\ presses = 0
    /\ photosSet = FALSE

\* the modal's download button or its handler, on the photo prop
DownloadSelected ==
    /\ selectedPhoto # NoPhoto
    /\ HandleDownload(selectedPhoto.dataUrl, CaptionText(selectedPhoto.caption),
                      selectedPhoto.isDeveloping)

NotDevelop == <<camVars, capVars, prevVars, svcVars, grainVars>>

NextDevelop ==
    \/ LoadPhotosResolves /\ UNCHANGED NotApp
    \/ LoadPhotosRejects /\ UNCHANGED NotApp
    \/ /\ nextId <= MaxDevelop
       /\ HandlePhotoTaken(GradedCapture, NoConfig)
       /\ UNCHANGED NotApp
    \/ IntakeResumes(TRUE, TRUE) /\ UNCHANGED NotApp
    \/ \E id \in 1..MaxDevelop : DevelopTimer(id) /\ UNCHANGED NotApp
    \/ \E id \in 1..MaxDevelop :
          presses < MaxPresses /\ HandleMouseDown(id) /\ UNCHANGED NotApp
    \/ \E click \in BOOLEAN : HandleMouseUp(click) /\ UNCHANGED NotApp
    \/ CloseModal /\ UNCHANGED NotApp
    \/ \E id \in 1..MaxDevelop : HandleDeletePhoto(id) /\ UNCHANGED NotApp
    \/ DownloadSelected /\ UNCHANGED <<appVars, NotDevelop>>

SpecDevelop == InitDevelop /\ [][NextDevelop]_vars

\* a timer that is set does fire
FairDevelop ==
    /\ SpecDevelop
    /\ WF_vars(\E id \in 1..MaxDevelop : DevelopTimer(id) /\ UNCHANGED NotApp)

-----------------------------------------------------------------------------
(* Properties of the final capture (SpecCamera, FairCamera) *)

\* C1: at most one takePhoto capture is in flight at a time, and while one
\* is in flight isShooting is set and the shutter button is disabled
C1_NoCaptureOverlap ==
    /\ Len(captures) <= 1
    /\ Len(captures) = 1 => isShooting /\ ShutterDisabled

\* a capture waiting for its delivery timer after the camera was switched off
C1_Witness ==
    /\ Len(captures) = 1
    /\ captures[1].phase = "printing"
    /\ ~isCameraOn

\* C2 as stated: the takePhoto of every accepted press ends after exactly
\* one applyVintageFilter call and exactly one onPhotoTaken delivery of
\* the graded artifact, and a rejected press leaves the capture state alone
C2_ExactlyOnce ==
    /\ lastDone.ended =>
          /\ lastDone.filterCalls = 1
          /\ lastDone.deliveries = 1
          /\ lastDone.dataUrl # NoValue
    /\ lastPress = "rejected" => ~isShooting

\* C3 as stated: once isShooting is true it becomes false again
C3_ShutterReenabled == isShooting ~> ~isShooting

-----------------------------------------------------------------------------
(* Properties of the image operations (SpecImageOps) *)

\* C4: an applyVintageFilter whose image failed to load has resolved, not
\* rejected, with exactly its input imageSrc, whatever the filter and level
C4_DecodeFailurePassThrough ==
    \A i \in 1..Len(ops) :
        ops[i].kind = "applyVintageFilter" /\ ops[i].img = "failed"
            => ops[i].promise = Resolved(ops[i].src)

\* a Noir grading at beauty level 80 whose source failed to decode
C4_Witness ==
    \E i \in 1..Len(ops) :
        /\ ops[i].kind = "applyVintageFilter"
        /\ ops[i].img = "failed"
        /\ ops[i].filter = "Noir"
        /\ ops[i].beauty = 80
        /\ ops[i].promise.state = "resolved"

\* C5 as stated: once the image of an operation has loaded or has failed
\* to load, the operation's promise is resolved
C5_AlwaysSettles ==
    \A i \in 1..Len(ops) :
        ops[i].img # "loading" => ops[i].promise.state = "resolved"

-----------------------------------------------------------------------------
(* Properties of captioning (SpecApp, SpecCaption) *)

\* the photos after a step, against the photos before it: same length,
\* each one unchanged except that id's caption may have become `caption`
\* where it was the pending placeholder
OnlyPlaceholderReset(before, after, id, caption) ==
    /\ Len(after) = Len(before)
    /\ \A i \in 1..Len(before) :
          \/ after[i] = before[i]
          \/ /\ before[i].id = id
             /\ before[i].caption = WritingCaption
             /\ after[i] = [before[i] EXCEPT !.caption = caption]

\* C7: the step in which App handles a rejected generatePhotoCaption
\* removes no photo and changes no field of any photo, except that the
\* caption of the photo the request was for becomes "Beautiful Moment" if
\* it still was the pending placeholder
C7_FailureKeepsPhoto ==
    [][\A k \in 1..Len(calls) :
          (/\ calls[k].photoId # 0
           /\ calls[k].promise.state = "rejected"
           /\ calls' = RemoveAt(calls, k))
              => OnlyPlaceholderReset(photos, photos', calls[k].photoId,
                                      DefaultCaption)]_vars

\* the only photo taken had its caption request rejected: the failure is
\* reported, the photo is in the list with its image, its caption reset
C7_Witness ==
    /\ nextId = 2
    /\ lastError # Null
    /\ calls = <<>>
    /\ Len(photos) = 1
    /\ photos[1].caption = DefaultCaption
    /\ photos[1].dataUrl = GradedCapture

\* generatePhotoCaption with AI disabled: settled at once with the default
\* caption, no provider contacted
DisabledServiceDefaults ==
    \A c \in AiConfigs :
        ~(c.present /\ c.enabled)
            => GeneratePhotoCaptionStart(0, c, apiKeyEnv)
                   = Call(0, c, "settled", "none", Resolved(DefaultCaption))

\* C8: when handlePhotoTaken resumes for a photo taken with AI captioning
\* disabled (aiConfig absent or enabled false), the photo is appended with
\* the caption "Beautiful Moment" and no caption request is issued; and
\* generatePhotoCaption with such a config resolves to "Beautiful Moment"
\* without contacting a provider
C8_DisabledMeansDefault ==
    [][(intakes # <<>> /\ intakes' = Tail(intakes)
          /\ ~IsAiEnabled(Head(intakes).aiConfig))
          => /\ photos' = Append(photos, [Head(intakes).photo EXCEPT
                                             !.caption = DefaultCaption])
             /\ calls' = calls
             /\ DisabledServiceDefaults]_vars

\* handlePhotoTaken is at its await for a photo taken with enabled false:
\* the photo carries "Beautiful Moment" and no request is outstanding
C8_Witness ==
    /\ intakes # <<>>
    /\ Head(intakes).aiConfig.present
    /\ ~Head(intakes).aiConfig.enabled
    /\ Head(intakes).photo.caption = DefaultCaption
    /\ calls = <<>>

\* an empty or missing provider answer is replaced by the default caption
EmptyAnswerDefaults ==
    \A a \in Answers :
        a.kind = "missing" \/ (a.kind = "text" /\ Trim(a.text) = <<>>)
            => CaptionOrDefault(a) = Resolved(DefaultCaption)

\* C9: a settled generatePhotoCaption has rejected or resolved with a
\* non-empty string; an empty or missing answer gives "Beautiful Moment";
\* on the OpenAI branch (provider openai with its openaiConfig) an empty
\* apiKey is a rejection before any request; on the Gemini branch a
\* missing API_KEY gives "Beautiful Moment"
C9_RejectsOrNonEmpty ==
    /\ EmptyAnswerDefaults
    /\ \A k \in 1..Len(calls) :
          LET c == calls[k]
              openai == c.config.provider = "openai" /\ c.config.openaiConfig
          IN  c.pc = "settled" =>
                /\ c.promise.state \in {"resolved", "rejected"}
                /\ c.promise.state = "resolved" => c.promise.value # <<>>
                /\ IsAiEnabled(c.config) /\ openai /\ c.config.apiKey = ""
                      => c.promise.state = "rejected" /\ c.contacted = "none"
                /\ IsAiEnabled(c.config) /\ ~openai /\ ~apiKeyEnv
                      => c.promise = Resolved(DefaultCaption)

\* an OpenAI answer of white space only came back as the default caption,
\* next to a call rejected for its missing key
C9_Witness ==
    /\ \E k \in 1..Len(calls) :
          /\ calls[k].contacted = "openai"
          /\ calls[k].promise = Resolved(DefaultCaption)
    /\ \E k \in 1..Len(calls) :
          /\ calls[k].promise.state = "rejected"
          /\ calls[k].contacted = "none"

-----------------------------------------------------------------------------
(* Properties of the live preview (SpecPreview) *)

\* C10: a renderPreview call made while the video element is absent (the
\* camera off or an error set) or its readyState is not 4 draws nothing,
\* a frame is drawn only when the ready test passed, and every
\* renderPreview call leaves the next frame requested
C10_UnreadyFrameSkipped ==
    [][frameTick' # frameTick
          => /\ ~(VideoMounted /\ readyState = 4) => lastFrame' = "skipped"
             /\ lastFrame' = "drawn" => VideoMounted /\ readyState = 4
             /\ animationFrameRef' \in 1..MaxFrames
             /\ rafPending'[animationFrameRef'].live]_vars

\* the camera is on with a live stream that has not reached readyState 4:
\* the last frame was skipped and the next one is requested
C10_Witness ==
    /\ lastFrame = "skipped"
    /\ isCameraOn
    /\ srcObject = "live"
    /\ readyState \in 1..3
    /\ animationFrameRef \in 1..MaxFrames
    /\ rafPending[animationFrameRef].live

\* the requestAnimationFrame callbacks of renderPreview not yet run
PendingFrames == {h \in 1..MaxFrames : rafPending[h].live}

\* C11: in every reachable state at most one requestAnimationFrame callback
\* of renderPreview is pending, whichever of its closures it holds
C11_SingleFramePending == Cardinality(PendingFrames) <= 1

\* a setting changed and the effect has not run yet: the one pending
\* callback still holds the closure made before the change
C11_Witness ==
    /\ effectDue
    /\ Cardinality(PendingFrames) = 1
    /\ \E h \in PendingFrames : rafPending[h].filter # activeFilter

\* C12: once the preview effect has run, a renderPreview callback is
\* pending exactly when the camera is on; and a renderPreview call made
\* while the camera is off draws nothing
C12_PreviewWhileCameraOn ==
    [][/\ ~effectDue' => (isCameraOn' <=> PendingFrames' # {})
       /\ (frameTick' # frameTick /\ ~isCameraOn) => lastFrame' # "drawn"]_vars

\* the camera was switched off after a frame had been drawn: the effect has
\* run and nothing is pending
C12_Witness ==
    /\ ~isCameraOn
    /\ ~effectDue
    /\ lastFrame = "drawn"
    /\ PendingFrames = {}

-----------------------------------------------------------------------------
(* Properties of the capture configuration (SpecCamera) *)

\* what applyVintageFilter can resolve with for the raw capture under the
\* given filter and beauty level
GradingsOf(filter, level) ==
    {ApplyVintageFilterOnload(RawCapture, filter, level, ctx).value :
         ctx \in CtxChoices}
        \cup {ApplyVintageFilterOnerror(RawCapture).value}

\* C13: a capture records the filter, beautyLevel and AI setting current
\* at its accepted press; its photo is graded with that filter and level
\* and delivered with that AI setting, whatever the settings are by then;
\* a change of a setting changes no capture in flight
C13_ConfigReadAtPress ==
    [][/\ Len(captures') = Len(captures) + 1 =>
             LET c == captures'[Len(captures')]
             IN  /\ c.filter = activeFilter
                 /\ c.beauty = beautyLevel
                 /\ c.ai = useAiCaption
       /\ \A i \in 1..Len(captures) :
             /\ (/\ captures[i].phase = "filtering"
                 /\ Len(captures') = Len(captures)
                 /\ captures'[i].phase = "printing")
                    => /\ captures'[i].dataUrl
                              \in GradingsOf(captures[i].filter, captures[i].beauty)
                       /\ captures'[i].dataUrl = tempPhoto'
             /\ (captures[i].phase = "printing" /\ captures' = RemoveAt(captures, i))
                    => /\ lastDone'.dataUrl = captures[i].dataUrl
                       /\ lastDone'.ai = captures[i].ai
       /\ <<activeFilter, beautyLevel, useAiCaption>>'
              # <<activeFilter, beautyLevel, useAiCaption>>
             => captures' = captures]_vars

\* a Noir capture waits for its timer, graded as Noir, after the filter was
\* changed to Moody and the AI setting was flipped
C13_Witness ==
    /\ Len(captures) = 1
    /\ captures[1].phase = "printing"
    /\ captures[1].filter = "Noir"
    /\ activeFilter = "Moody"
    /\ captures[1].ai # useAiCaption
    /\ captures[1].dataUrl
           = GradedImage(RawCapture, "Noir", captures[1].beauty, AllCtx)

-----------------------------------------------------------------------------
(* Properties of the unavailable camera (SpecDevice) *)

\* C14: from a state in which error is set, a renderPreview call draws
\* nothing, no shutter press is accepted and no capture starts, and error
\* is cleared only by the step that switches the camera on
C14_NothingRunsOnError ==
    [][error # Null =>
          /\ frameTick' # frameTick => lastFrame' = "skipped"
          /\ lastPress' # lastPress => lastPress' = "rejected"
          /\ Len(captures') <= Len(captures)
          /\ isShooting' => isShooting
          /\ error' = Null => ~isCameraOn /\ isCameraOn']_vars

\* the camera failed, was switched off and the effect has run: the error is
\* still shown, a frame was skipped, nothing is in flight
C14_Witness ==
    /\ error # Null
    /\ ~isCameraOn
    /\ ~effectDue
    /\ lastFrame = "skipped"
    /\ captures = <<>>

-----------------------------------------------------------------------------
(* Properties of the grading passes of applyVintageFilter (SpecImageOps) *)

\* the gradings that ran their passes: the image loaded and the output
\* canvas had a 2D context
GradedOps ==
    {i \in 1..Len(ops) : /\ ops[i].kind = "applyVintageFilter"
                         /\ ops[i].img = "loaded"
                         /\ ops[i].ctx.main}

\* the positions of the passes named op in a sequence of passes
PassesAt(layers, op) == {k \in 1..Len(layers) : layers[k].op = op}

\* the passes a grading made on its source image; without a context for
\* the base canvas the source image itself is lost
AddedBy(i) ==
    IF ops[i].ctx.base
    THEN SubSeq(ops[i].promise.value.layers, Len(ops[i].src.layers) + 1,
                Len(ops[i].promise.value.layers))
    ELSE ops[i].promise.value.layers

\* C15: the grain pass has amplitude 45 for Noir and 25 for every other
\* preset but Original, for which no grain is injected at all
C15_GrainAmplitude ==
    \A i \in GradedOps :
        LET added == AddedBy(i)
            grains == PassesAt(added, "grain")
        IN  IF ops[i].filter = "Original"
            THEN grains = {}
            ELSE /\ Cardinality(grains) = 1
                 /\ \A k \in grains :
                        added[k].level = IF ops[i].filter = "Noir" THEN 45 ELSE 25

\* a Noir grading that ran and carries grain of amplitude 45
C15_Witness ==
    \E i \in GradedOps :
        /\ ops[i].filter = "Noir"
        /\ \E k \in PassesAt(AddedBy(i), "grain") : AddedBy(i)[k].level = 45

\* C16: grading an image with the Original preset and beauty level 0 gives
\* back that image unchanged
C16_IdentityLaw ==
    \A i \in GradedOps :
        ops[i].filter = "Original" /\ ops[i].beauty = 0
            => ops[i].promise = Resolved(ops[i].src)

\* the place of a pass in the order beautify, base adjustment, tint fills,
\* grain, encoding
PassRank(op) ==
    CASE op \in {"beautify blur", "beautify screen"} -> 1
      [] op = "base" -> 2
      [] op \in {"overlay", "multiply", "screen", "soft-light", "color-burn"} -> 3
      [] op = "grain" -> 4
      [] OTHER -> 5

\* C19: the passes of a final grading come in the order beautify, base
\* adjustment, tint fills as the preset's case lists them, grain, for
\* every preset and beauty level; every preset but Original has exactly
\* one base adjustment
C19_PassOrder ==
    \A i \in GradedOps :
        LET added == AddedBy(i)
        IN  /\ \A j, k \in 1..Len(added) :
                   PassRank(added[j].op) < PassRank(added[k].op) => j < k
            /\ SelectSeq(added, LAMBDA l : PassRank(l.op) = 3)
                   = TintLayers(ops[i].filter)
            /\ Cardinality(PassesAt(added, "base"))
                   = IF ops[i].filter = "Original" THEN 0 ELSE 1

\* an Instant grading at beauty level 80 that made all its passes: two
\* beautify steps, the base adjustment, two tint fills, grain, encoding
C19_Witness ==
    \E i \in GradedOps :
        /\ ops[i].filter = "Instant"
        /\ ops[i].beauty = 80
        /\ ops[i].ctx = AllCtx
        /\ Len(AddedBy(i)) = 7

-----------------------------------------------------------------------------
(* Properties of the two grading paths (SpecGrade) *)

\* the globalCompositeOperation values the tint fills are drawn with
BlendModes == {"overlay", "multiply", "screen", "soft-light", "color-burn"}

\* the base adjustments applied to the image, the tint fills and the grain
\* among a sequence of passes
BaseOf(layers) == SelectSeq(layers, LAMBDA l : l.op = "base")

TintsOf(layers) == SelectSeq(layers, LAMBDA l : l.op \in BlendModes)

GrainOf(layers) == SelectSeq(layers, LAMBDA l : l.op = "grain")

\* the final gradings that ran with every canvas context available
FullyGradedOps == {i \in GradedOps : ops[i].ctx = AllCtx}

\* C17: a drawn live frame and a final grading made with the same preset
\* carry the same base adjustment of the image, the same tint layers in the
\* same order (blend mode, colour, opacity) and the same grain
C17_SameTransforms ==
    \A i \in FullyGradedOps :
        lastFrame = "drawn"
            => LET live == previewCanvas.layers
                   final == AddedBy(i)
               IN  /\ BaseOf(live) = BaseOf(final)
                   /\ TintsOf(live) = TintsOf(final)
                   /\ GrainOf(live) = GrainOf(final)

\* the positions of the beautify pass in a sequence of passes
BeautifyAt(layers) ==
    {k \in 1..Len(layers) : layers[k].op \in {"beautify blur", "beautify screen"}}

\* the beautify pass came first, once, with the given blur radius
\* (hundredths of a pixel) and screen opacity (thousandths)
RanBeautifyFirst(layers, blur, alpha) ==
    /\ BeautifyAt(layers) = {1, 2}
    /\ layers[1] = Layer("beautify blur", "none", blur)
    /\ layers[2] = Layer("beautify screen", "none", alpha)

OrangeAt(layers) ==
    {k \in 1..Len(layers) : /\ layers[k].op = "overlay"
                            /\ layers[k].filter = "rgb(255, 160, 0)"}

TealAt(layers) ==
    {k \in 1..Len(layers) : /\ layers[k].op = "color-burn"
                            /\ layers[k].filter = "rgb(0, 220, 255)"}

\* both fills are there and every orange overlay precedes every teal burn
OrangeBeforeTeal(layers) ==
    /\ OrangeAt(layers) # {}
    /\ TealAt(layers) # {}
    /\ \A j \in OrangeAt(layers), k \in TealAt(layers) : j < k

\* C20: with the Blockbuster preset the orange overlay is composited before
\* the teal color-burn fill, on every drawn live frame and in every final
\* grading
C20_OrangeBeforeTeal ==
    /\ previewCanvas # BlankCanvas /\ activeFilter = "Blockbuster"
           => OrangeBeforeTeal(previewCanvas.layers)
    /\ \A i \in GradedOps :
           ops[i].filter = "Blockbuster" => OrangeBeforeTeal(AddedBy(i))

\* a Blockbuster frame on the preview canvas and a Blockbuster capture
\* graded, each with its two fills
C20_Witness ==
    /\ activeFilter = "Blockbuster"
    /\ lastFrame = "drawn"
    /\ TealAt(previewCanvas.layers) # {}
    /\ \E i \in GradedOps :
           ops[i].filter = "Blockbuster" /\ TealAt(AddedBy(i)) # {}

-----------------------------------------------------------------------------
(* Properties of the grain loop (SpecGrain) *)

\* the pixels the loop has been over
GrainedPixels == 1..(grainAt - 1)

\* twice the offset stays within the amplitude: -A/2 <= noise <= A/2
NoiseInRange(k) ==
    /\ 2 * noises[k] >= -1000 * NoiseAmount(grainFilter)
    /\ 2 * noises[k] <= 1000 * NoiseAmount(grainFilter)

\* every channel of pixel k is the rounded, clamped sum of what it was and
\* the offset given for it, alpha is what it was, all within 0..255
GrainedBy(k, nr, ng, nb) ==
    /\ imageData[k].r = ToUint8Clamp(original[k].r * 1000 + nr)
    /\ imageData[k].g = ToUint8Clamp(original[k].g * 1000 + ng)
    /\ imageData[k].b = ToUint8Clamp(original[k].b * 1000 + nb)
    /\ imageData[k].a = original[k].a
    /\ \A v \in {imageData[k].r, imageData[k].g, imageData[k].b} : v \in 0..255

\* C21 as stated: each of R, G and B of every pixel gets an offset of its
\* own, drawn independently (three draws a pixel) from [-A/2, +A/2]; alpha
\* is unchanged and every channel stays within 0..255
C21_OffsetPerChannel ==
    /\ randomCalls = 3 * Cardinality(GrainedPixels)
    /\ \A k \in GrainedPixels :
           /\ NoiseInRange(k)
           /\ imageData[k].a = original[k].a
           /\ \A v \in {imageData[k].r, imageData[k].g, imageData[k].b} : v \in 0..255

\* C21, amended: every pixel gets one offset, drawn independently of the
\* other pixels' from [-A/2, +A/2] and added to its R, G and B alike; alpha
\* is unchanged, every channel stays within 0..255, and a pixel the loop
\* has not reached is as it was
C21_OffsetPerPixel ==
    /\ randomCalls = Cardinality(GrainedPixels)
    /\ Len(noises) = Cardinality(GrainedPixels)
    /\ \A k \in GrainedPixels :
           NoiseInRange(k) /\ GrainedBy(k, noises[k], noises[k], noises[k])
    /\ \A k \in 1..Len(imageData) :
           k \notin GrainedPixels => imageData[k] = original[k]

\* a Noir image whose two pixels drew different offsets, one clamped at 0
\* and one at 255, alpha kept
C21_Witness ==
    /\ grainFilter = "Noir"
    /\ grainAt > 2
    /\ noises[1] < 0 /\ noises[2] > 0
    /\ original[1].r = 0 /\ imageData[1].r = 0
    /\ original[2].g = 255 /\ imageData[2].g = 255
    /\ imageData[2].b > original[2].b

-----------------------------------------------------------------------------
(* Properties of the photo list under late caption results (SpecApp) *)

\* the caption of the photo with the given id in a photo list; the id is
\* in the list
CaptionOf(list, id) ==
    LET i == CHOOSE j \in 1..Len(list) : list[j].id = id IN list[i].caption

IdsOf(list) == {list[i].id : i \in 1..Len(list)}

\* C22: once the user has edited a photo's caption, the step in which its
\* caption request resolves or rejects leaves that caption as the user
\* wrote it
C22_UserCaptionKept ==
    [][\A id \in IdsOf(photos) \cap IdsOf(photos') :
          (CaptionOf(photos, id) \in UserCaptions /\ Len(calls') < Len(calls))
              => CaptionOf(photos', id) = CaptionOf(photos, id)]_vars

-----------------------------------------------------------------------------
(* Properties of the gallery and its modal (SpecGallery) *)

\* C23: whenever the modal has a selected photo, the id of that photo is
\* the id of a photo in the photos list, whatever sequence of add, drag,
\* delete from a frame, delete from the modal, navigate, stack and clear
\* all came before
C23_SelectedInList ==
    selectedPhoto # NoPhoto => FindIndex(photos, selectedPhoto.id) # 0

\* the photo the modal should show after its photo at position idx (0: not
\* in the list) is deleted: the follower, else the predecessor, else none
ExpectedAfterDelete(list, idx) ==
    IF idx # 0 /\ idx < Len(list) THEN list[idx + 1]
    ELSE IF idx > 1 THEN list[idx - 1]
    ELSE NoPhoto

\* the position the selection should have after Prev or Next (step -1 or
\* 1) from position idx: one further, or the same at the ends
ExpectedPosition(list, idx, step) ==
    IF idx # 0 /\ idx + step \in 1..Len(list) THEN idx + step ELSE idx

\* C29: deleting the selected photo from the modal removes exactly that
\* photo and selects the photo that followed it, else the one that
\* preceded it, else closes the modal; Prev and Next move the selection by
\* exactly one list position and do nothing at the first and last photo
C29_ModalDeleteAndNavigate ==
    [][LET idx == FindIndex(photos, selectedPhoto.id)
       IN  /\ HandleDeleteFromModal =>
                 /\ photos' = SelectSeq(photos, LAMBDA p : p.id # selectedPhoto.id)
                 /\ selectedPhoto' = ExpectedAfterDelete(photos, idx)
           /\ HandlePrevPhoto =>
                 FindIndex(photos, selectedPhoto'.id) = ExpectedPosition(photos, idx, -1)
           /\ HandleNextPhoto =>
                 FindIndex(photos, selectedPhoto'.id) = ExpectedPosition(photos, idx, 1)
      ]_vars

\* C28: after any sequence of load, new photo, mouse down and stack, the
\* z-index counter is at least the zIndex of every photo in the list, so
\* the next photo added or pressed lies above all the others
C28_CounterAboveAll ==
    \A i \in 1..Len(photos) : photos[i].zIndex <= maxZIndex

\* C24: a photo that handlePhotoTaken has added stays in the list until
\* the user deletes it or clears all photos; the initial load completing
\* later does not drop it (until the load completes, the photos in the
\* list are exactly those handlePhotoTaken added)
C24_StaysUntilRemoved ==
    [][\A id \in IdsOf(photos) :
          \/ id \in IdsOf(photos')
          \/ HandleDeletePhoto(id)
          \/ selectedPhoto.id = id /\ HandleDeleteFromModal
          \/ \E ok \in BOOLEAN : ClearPhotos(ok)
      ]_vars

-----------------------------------------------------------------------------
(* Properties of the photo list and IndexedDB (SpecStorage) *)

\* the save effect's timer writes its photos to IndexedDB
WritesList == stored' = Stored(saveTimer.photos) /\ SaveTimerFires(TRUE)

\* C25: the list is written to storage only once isStorageLoaded is true,
\* and a stored collection of photos is never overwritten by the initial
\* empty list, the list no setPhotos has touched since the mount
C25_StoredNotOverwritten ==
    [][WritesList =>
          /\ isStorageLoaded
          /\ ~(~photosSet /\ saveTimer.photos = <<>> /\ stored.photos # <<>>)
      ]_vars

-----------------------------------------------------------------------------
(* Properties of removed photos (SpecRemoved) *)

\* the list after the step has the same photos as before, and each is the
\* same but possibly the one with the given id
OnlyTouches(id) ==
    /\ Len(photos') = Len(photos)
    /\ \A i \in 1..Len(photos) :
          photos'[i].id = photos[i].id /\ (photos[i].id # id => photos'[i] = photos[i])

\* C26: a deleted or cleared photo does not reappear: the fly timer, the
\* developing timer and a late caption result or failure of a photo
\* change no photo but their own, so for a photo that is no longer in the
\* list they leave the list as it is; a photo enters the list only from
\* the handlePhotoTaken call that is bringing it in
C26_RemovedStaysRemoved ==
    [][/\ \A id \in 1..MaxRemoved :
             FlyTimer(id) \/ DevelopTimer(id) => OnlyTouches(id)
       /\ \A k \in 1..Len(calls) :
             CaptionThen(k) \/ CaptionCatch(k) => OnlyTouches(calls[k].photoId)
       /\ \A id \in IdsOf(photos') \ IdsOf(photos) :
             /\ intakes # <<>>
             /\ id = Head(intakes).photo.id
             /\ intakes' = Tail(intakes)
      ]_vars

\* a photo was added and removed while another one is in the list still
\* showing the placeholder; the removed photo's fly timer has fired, its
\* developing timer is pending and its caption request has settled
C26_Witness ==
    \E r \in 1..MaxRemoved :
        /\ r < nextId
        /\ r \notin IdsOf(photos)
        /\ \A i \in 1..Len(intakes) : intakes[i].photo.id # r
        /\ \E i \in 1..Len(photos) : photos[i].caption = WritingCaption
        /\ r \notin flyTimers
        /\ r \in devTimers
        /\ \E k \in 1..Len(calls) : calls[k].photoId = r /\ calls[k].pc = "settled"

-----------------------------------------------------------------------------
(* Properties of developing (FairDevelop) *)

\* the photo with this id is in the list and is developing
Developing(id) ==
    \E i \in 1..Len(photos) : photos[i].id = id /\ photos[i].isDeveloping

\* C30: a photo that is in the list and developing is later removed from
\* the list or no longer developing, so every photo that stays ends up
\* with isDeveloping false; and when a card download starts, the photo of
\* the list that the modal shows is not developing
C30_DevelopingEnds ==
    /\ \A id \in 1..MaxDevelop : Developing(id) ~> ~Developing(id)
    /\ [][DownloadSelected => ~Developing(selectedPhoto.id)]_vars

\* a stored photo was loaded and a new one has developed by its timer,
\* both are shown as developed, and a card download has started
C30_Witness ==
    /\ ~loadPending
    /\ \E i \in 1..Len(photos) : photos[i].id \in 1..Len(stored.photos)
    /\ \E i \in 1..Len(photos) :
          photos[i].id \in flyTimers /\ photos[i].id \notin devTimers
    /\ \A i \in 1..Len(photos) : ~photos[i].isDeveloping
    /\ Len(ops) > 0

-----------------------------------------------------------------------------
(* Properties of the camera streams (SpecCamera) *)

\* C27: no camera stream leaks: every acquired MediaStream that still has
\* a live track is the one attached to the video element, there is at most
\* one, and while the camera is off no track is live, whatever requests
\* are still pending or have resolved late
C27_NoStreamLeak ==
    /\ \A i \in 1..Len(streams) : streams[i].attached
    /\ Len(streams) <= 1
    /\ streams # <<>> => srcObject = "live"
    /\ ~isCameraOn => streams = <<>>

\* the camera was switched off and on again while a request was pending:
\* the stream of the new request is attached and live, and the request of
\* the earlier run, now at its fallback, is still to settle
C27_Witness ==
    /\ isCameraOn
    /\ srcObject = "live"
    /\ streams = <<Stream(TRUE)>>
    /\ \E i \in 1..Len(camReqs) : ~camReqs[i].mounted /\ camReqs[i].phase = "fallback"

====
